---- MODULE Spec2Model ----
(***************************************************************************)
(* Model of the alchemy-logging C++ core (src/include/logger.h,             *)
(* src/src/logger.cpp): the channel registry singleton, its filter         *)
(* configuration, the two formatters and the call-site macro.              *)
(*                                                                         *)
(* A std::string is a sequence of atoms.  An atom stands for a fixed,      *)
(* non-empty run of characters holding neither ',' nor ':' nor '\n', or    *)
(* for one of those three delimiter characters.  No concatenation of two   *)
(* or more atoms spells a level name.                                      *)
(***************************************************************************)
EXTENDS Integers, Sequences, FiniteSets, TLC

(* ---- bounds of the model ---------------------------------------------- *)
MaxSpecLen == 4      \* longest filter spec string, in atoms
MaxSinks == 2        \* longest sink list
MaxOut == 2          \* most lines a stream holds before logging stops
MaxIndent == 2       \* deepest indentation a thread asks for
MaxLogs == 2         \* most log() calls a thread makes write by write
MaxScopes == 2       \* most scope objects a thread has alive
MaxBlockOut == 3     \* most lines a stream holds where scope blocks log

(* ---- strings ----------------------------------------------------------- *)
Comma == ","
Colon == ":"
Newline == "\n"
EmptyStr == << >>

RECURSIVE StringsUpTo(_, _)
StringsUpTo(alphabet, n) ==
  IF n = 0 THEN {EmptyStr}
  ELSE LET shorter == StringsUpTo(alphabet, n - 1)
       IN  shorter \cup {Append(s, a) : s \in shorter, a \in alphabet}

(* position of the first delim in s, or 0 *)
RECURSIVE FindFirst(_, _, _)
FindFirst(s, delim, i) ==
  IF i > Len(s) THEN 0
  ELSE IF s[i] = delim THEN i
  ELSE FindFirst(s, delim, i + 1)

(* std::getline loop: a token ends at each delim; what follows the last    *)
(* delim is a token only when it is not empty.                             *)
RECURSIVE split(_, _)
split(s, delim) ==
  IF s = EmptyStr THEN << >>
  ELSE LET i == FindFirst(s, delim, 1)
       IN  IF i = 0 THEN << s >>
           ELSE << SubSeq(s, 1, i - 1) >> \o split(SubSeq(s, i + 1, Len(s)), delim)

(* ---- levels ------------------------------------------------------------ *)
off == 0
fatal == 1
error == 2
warning == 3
info == 4
trace == 5
debug == 6
debug1 == 7
debug2 == 8
debug3 == 9
debug4 == 10
ELogLevels == off .. debug4

(* operator<<(ostream, ELogLevels): the four-character header string *)
LevelToHeaderString(a_level) ==
  << "OFF ", "FATL", "ERRR", "WARN", "INFO", "TRCE",
     "DBUG", "DBG1", "DBG2", "DBG3", "DBG4" >>[a_level + 1]

LevelToHumanString(a_level) ==
  << << "off" >>, << "fatal" >>, << "error" >>, << "warning" >>, << "info" >>,
     << "trace" >>, << "debug" >>, << "debug1" >>, << "debug2" >>,
     << "debug3" >>, << "debug4" >> >>[a_level + 1]

(* A call either returns a value or throws std::runtime_error. *)
Returns(v) == [thrown |-> FALSE, val |-> v]
Throws(what) == [thrown |-> TRUE, val |-> what]

(* mutant: text that is no level name gives error *)
ParseLevel_defaulting(a_str) ==
  IF \E l \in ELogLevels : LevelToHumanString(l) = a_str
  THEN Returns(CHOOSE l \in ELogLevels : LevelToHumanString(l) = a_str)
  ELSE Returns(error)

ParseLevel(a_str) ==
  IF      a_str = << "off" >>     THEN Returns(off)
  ELSE IF a_str = << "fatal" >>   THEN Returns(fatal)
  ELSE IF a_str = << "error" >>   THEN Returns(error)
  ELSE IF a_str = << "warning" >> THEN Returns(warning)
  ELSE IF a_str = << "info" >>    THEN Returns(info)
  ELSE IF a_str = << "trace" >>   THEN Returns(trace)
  ELSE IF a_str = << "debug" >>   THEN Returns(debug)
  ELSE IF a_str = << "debug1" >>  THEN Returns(debug1)
  ELSE IF a_str = << "debug2" >>  THEN Returns(debug2)
  ELSE IF a_str = << "debug3" >>  THEN Returns(debug3)
  ELSE IF a_str = << "debug4" >>  THEN Returns(debug4)
  ELSE Throws("Invalid Log Level Spec")

(* ---- filter spec ------------------------------------------------------- *)
(* A FilterMap is a function from a finite set of channel strings to levels *)
EmptyMap == [c \in {} |-> off]
MapPut(m, k, v) == [c \in DOMAIN m \cup {k} |-> IF c = k THEN v ELSE m[c]]

(* the loop of parseFilterSpec over splitVec[i..], with the map built so far *)
RECURSIVE parsePairs(_, _, _)
parsePairs(splitVec, i, out) ==
  IF i > Len(splitVec) THEN Returns(out)
  ELSE LET subSplitVec == split(splitVec[i], Colon)
       IN  IF Len(subSplitVec) # 2 THEN Throws("Invalid Log Spec")
           ELSE LET lvl == ParseLevel(subSplitVec[2])
                IN  IF lvl.thrown THEN lvl
                    ELSE parsePairs(splitVec, i + 1,
                                    MapPut(out, subSplitVec[1], lvl.val))

(* "return {{}}" builds the map from an initializer list of one            *)
(* value-initialised pair: the entry ("", off).                            *)
parseFilterSpec(a_spec) ==
  IF a_spec = EmptyStr THEN Returns(MapPut(EmptyMap, EmptyStr, off))
  ELSE parsePairs(split(a_spec, Comma), 1, EmptyMap)

(* ---- entries and formatters -------------------------------------------- *)
MAX_CHANNEL_LENGTH == 5
Timestamp == << "ts" >>          \* what getTimestamp() returns

(* std::string::resize(n, ' ') *)
Resize(s, n) == [i \in 1 .. n |-> IF i <= Len(s) THEN s[i] ELSE " "]

(* json values: a number or a string, by its text *)
JStr(s) == [num |-> FALSE, text |-> s]
JNum(n) == [num |-> TRUE, text |-> << ToString(n) >>]

(* the json object a_mapData: its members in iteration order *)
NoMap == << >>
MapKeys(m) == {m[i].key : i \in DOMAIN m}

(* CLogEntry's constructor: the service name and the calling thread's      *)
(* indent are read from the registry when the entry is built.              *)
CLogEntry(a_channel, a_level, a_message, a_mapData, serviceName, nIndent, tid) ==
  [channel |-> a_channel, level |-> a_level, message |-> a_message,
   timestamp |-> Timestamp, serviceName |-> serviceName, nIndent |-> nIndent,
   threadId |-> tid, mapData |-> a_mapData]

(* CStdLogFormatter::getHeader; the thread-id flag is read while formatting *)
getHeader(a_entry, threadIDEnabled) ==
  [timestamp   |-> a_entry.timestamp,
   serviceName |-> a_entry.serviceName,
   channel     |-> Resize(a_entry.channel, MAX_CHANNEL_LENGTH),
   level       |-> LevelToHeaderString(a_entry.level),
   thread      |-> IF threadIDEnabled THEN << ToString(a_entry.threadId) >>
                   ELSE EmptyStr,
   nIndent     |-> a_entry.nIndent]

StdLine(format, text) == [fmt |-> "std", header |-> format, text |-> text]

StdFormatEntry(a_entry, threadIDEnabled) ==
  LET splitVec == split(a_entry.message, Newline)
      format   == getHeader(a_entry, threadIDEnabled)
  IN  [i \in 1 .. Len(splitVec) |-> StdLine(format, splitVec[i])]
      \o [i \in 1 .. Len(a_entry.mapData) |->
            StdLine(format, << a_entry.mapData[i].key, ": " >>
                            \o a_entry.mapData[i].value.text)]

(* mutant: a key the metadata has keeps the metadata's value *)
JSONObject_metadataWins(a_entry, threadIDEnabled) ==
  LET fixed == {"channel", "level_str", "timestamp", "num_indent"}
               \cup (IF a_entry.message # EmptyStr THEN {"message"} ELSE {})
               \cup (IF threadIDEnabled THEN {"thread_id"} ELSE {})
               \cup (IF a_entry.serviceName # EmptyStr THEN {"service_name"} ELSE {})
      meta(k) == LET i == CHOOSE i \in DOMAIN a_entry.mapData :
                            a_entry.mapData[i].key = k
                 IN  a_entry.mapData[i].value
  IN  [k \in MapKeys(a_entry.mapData) \cup fixed |->
         IF      k \in MapKeys(a_entry.mapData) THEN meta(k)
         ELSE IF k = "channel"      THEN JStr(a_entry.channel)
         ELSE IF k = "level_str"    THEN JStr(LevelToHumanString(a_entry.level))
         ELSE IF k = "timestamp"    THEN JStr(a_entry.timestamp)
         ELSE IF k = "num_indent"   THEN JNum(a_entry.nIndent)
         ELSE IF k = "message"      THEN JStr(a_entry.message)
         ELSE IF k = "thread_id"    THEN JStr(<< ToString(a_entry.threadId) >>)
         ELSE JStr(a_entry.serviceName)]

(* j = mapData, then the fixed fields are assigned over it *)
JSONObject(a_entry, threadIDEnabled) ==
  LET fixed == {"channel", "level_str", "timestamp", "num_indent"}
               \cup (IF a_entry.message # EmptyStr THEN {"message"} ELSE {})
               \cup (IF threadIDEnabled THEN {"thread_id"} ELSE {})
               \cup (IF a_entry.serviceName # EmptyStr THEN {"service_name"} ELSE {})
      meta(k) == LET i == CHOOSE i \in DOMAIN a_entry.mapData :
                            a_entry.mapData[i].key = k
                 IN  a_entry.mapData[i].value
  IN  [k \in MapKeys(a_entry.mapData) \cup fixed |->
         IF      k = "channel"      THEN JStr(a_entry.channel)
         ELSE IF k = "level_str"    THEN JStr(LevelToHumanString(a_entry.level))
         ELSE IF k = "timestamp"    THEN JStr(a_entry.timestamp)
         ELSE IF k = "num_indent"   THEN JNum(a_entry.nIndent)
         ELSE IF k = "message" /\ k \in fixed THEN JStr(a_entry.message)
         ELSE IF k = "thread_id" /\ k \in fixed
                                    THEN JStr(<< ToString(a_entry.threadId) >>)
         ELSE IF k = "service_name" /\ k \in fixed THEN JStr(a_entry.serviceName)
         ELSE meta(k)]

(* j.dump(): the members in key order, strings quoted and escaped, all on  *)
(* one line                                                                *)
KeyOrder == << "channel", "k", "level_str", "message", "num_indent",
               "service_name", "thread_id", "timestamp" >>
Escape(str) == [i \in 1 .. Len(str) |-> IF str[i] = Newline THEN "\\n" ELSE str[i]]
dumpValue(v) == IF v.num THEN v.text ELSE << "\"" >> \o Escape(v.text) \o << "\"" >>
RECURSIVE dumpMembers(_, _)
dumpMembers(j, keys) ==
  IF keys = << >> THEN << >>
  ELSE << "\"", keys[1], "\"", ":" >> \o dumpValue(j[keys[1]])
       \o (IF Len(keys) > 1 THEN << "," >> ELSE << >>)
       \o dumpMembers(j, Tail(keys))
dump(j) ==
  << "{" >> \o dumpMembers(j, SelectSeq(KeyOrder, LAMBDA k : k \in DOMAIN j))
  \o << "}" >>

(* mutant: the message is added whether it is empty or not *)
JSONFormatEntry_alwaysMessage(a_entry, threadIDEnabled) ==
  LET j == JSONObject(a_entry, threadIDEnabled)
      jm == [k \in DOMAIN j \cup {"message"} |->
               IF k = "message" THEN JStr(a_entry.message) ELSE j[k]]
  IN  << [fmt |-> "json", object |-> jm, text |-> dump(jm) \o << Newline >>] >>

JSONFormatEntry(a_entry, threadIDEnabled) ==
  LET j == JSONObject(a_entry, threadIDEnabled)
  IN  << [fmt |-> "json", object |-> j, text |-> dump(j) \o << Newline >>] >>

(* m_formatter->formatEntry, by the dynamic type of the formatter *)
formatEntry(formatter, a_entry, threadIDEnabled) ==
  IF formatter = "json" THEN JSONFormatEntry(a_entry, threadIDEnabled)
  ELSE StdFormatEntry(a_entry, threadIDEnabled)

(* the level of the entry a line was produced from, as the line shows it *)
LineLevelIs(line, lvl) ==
  IF line.fmt = "std" THEN line.header.level = LevelToHeaderString(lvl)
  ELSE line.object["level_str"] = JStr(LevelToHumanString(lvl))

(* ---- inputs ------------------------------------------------------------ *)
Threads == {1, 2}
Streams == {"s1", "s2"}                       \* the ostreams callers own
SpecAtoms == {"A", "info", Colon, Comma}
FilterSpecs == StringsUpTo(SpecAtoms, MaxSpecLen)
DefaultLevelSpecs == {<< "A" >>, << "error" >>, << "info" >>}
Channels == {EmptyStr, << "A" >>, << "B" >>}
Formatters == {"null", "std", "json"}         \* a null Ptr, CStdLogFormatter, CJSONLogFormatter

(* ---- the registry ------------------------------------------------------ *)
VARIABLES
  m_filters,        \* FilterMap
  m_defaultLevel,
  m_doThreadLog,
  m_doMetadata,
  m_serviceName,
  m_sinks,          \* the registered streams, in registration order
  m_formatter,
  m_indents,        \* ThreadIndentMap: thread id -> depth, for the threads it holds
  m_metadata,       \* ThreadMetadataMap: thread id -> json object
  out,              \* what each stream has received
  pc,               \* per thread: where it is inside ALOG_LEVEL_IMPL
  last,             \* the last call made on the registry and its outcome
  nLogged,          \* per thread: the log() calls it has returned from, counted
                    \* where log() is taken write by write
  scopes,           \* per thread: its live scope objects, innermost last
  clock,            \* what std::chrono::high_resolution_clock::now() gives, in ns
  asked,            \* kept for the properties: the thread-id flag as the last
                    \* call of enableThreadID, disableThreadID or reset left it
  m_pInstance,      \* the static Ptr: 0 while empty, else the number of the
                    \* registry it points to
  registries        \* the registries constructed so far, in order, as
                    \* instance() and the calls made through it left them
                    \* where first use is followed; the fields above are
                    \* those of the registry the program goes on with

registry == << m_filters, m_defaultLevel, m_doThreadLog, m_doMetadata,
               m_serviceName, m_sinks, m_formatter, m_indents, m_metadata >>
vars == << m_filters, m_defaultLevel, m_doThreadLog, m_doMetadata,
           m_serviceName, m_sinks, m_formatter, m_indents, m_metadata,
           out, pc, last, nLogged, scopes, clock, asked, m_pInstance,
           registries >>
singleton == << m_pInstance, registries >>

(* the clock's reading when the program starts: some time after its epoch *)
ClockStart == 5

Idle == [at |-> "idle"]
NoCall == [op |-> "none", tid |-> 0, args |-> << >>, raised |-> FALSE,
           ret |-> "void", writes |-> << >>]
Call(op, tid, args, raised, ret, writes) ==
  [op |-> op, tid |-> tid, args |-> args, raised |-> raised, ret |-> ret,
   writes |-> writes]

(* instance(): the constructor, then setFormatter(new CStdLogFormatter) *)
Init ==
  /\ m_filters = EmptyMap
  /\ m_defaultLevel = off
  /\ m_doThreadLog = FALSE
  /\ m_doMetadata = FALSE
  /\ m_serviceName = EmptyStr
  /\ m_sinks = << >>
  /\ m_formatter = "std"
  /\ m_indents = [t \in {} |-> 0]
  /\ m_metadata = [t \in {} |-> NoMap]
  /\ out = [s \in Streams |-> << >>]
  /\ pc = [t \in Threads |-> Idle]
  /\ last = NoCall
  /\ nLogged = [t \in Threads |-> 0]
  /\ scopes = [t \in Threads |-> << >>]
  /\ clock = ClockStart
  /\ asked = FALSE
  /\ m_pInstance = 1
  /\ registries = << [m_formatter |-> "std", m_serviceName |-> EmptyStr] >>

(* ---- setupFilters ------------------------------------------------------ *)
(* m_filters is assigned before a_defaultLevelSpec is parsed *)
setupFiltersResult(filters, defaultLevel, a_filterSpec, a_defaultLevelSpec) ==
  LET parsed == parseFilterSpec(a_filterSpec)
  IN  IF parsed.thrown
      THEN [raised |-> TRUE, filters |-> filters, defaultLevel |-> defaultLevel]
      ELSE LET lvl == ParseLevel(a_defaultLevelSpec)
           IN  IF lvl.thrown
               THEN [raised |-> TRUE, filters |-> parsed.val,
                     defaultLevel |-> defaultLevel]
               ELSE [raised |-> FALSE, filters |-> parsed.val,
                     defaultLevel |-> lvl.val]

(* mutant: the call starts from a clean registry, sinks included *)
setupFilters_clearing(a_filterSpec, a_defaultLevelSpec) ==
  LET r == setupFiltersResult(m_filters, m_defaultLevel,
                              a_filterSpec, a_defaultLevelSpec)
  IN  /\ m_filters' = r.filters
      /\ m_defaultLevel' = r.defaultLevel
      /\ m_sinks' = << >>
      /\ last' = Call("setupFilters", 0,
                      [filterSpec |-> a_filterSpec,
                       defaultLevelSpec |-> a_defaultLevelSpec],
                      r.raised, "void", << >>)
      /\ UNCHANGED << clock,
                      m_doThreadLog, m_doMetadata, m_serviceName, m_formatter,
                      m_indents, m_metadata, out, pc, nLogged, scopes, asked,
                      singleton >>

setupFilters(a_filterSpec, a_defaultLevelSpec) ==
  LET r == setupFiltersResult(m_filters, m_defaultLevel,
                              a_filterSpec, a_defaultLevelSpec)
  IN  /\ m_filters' = r.filters
      /\ m_defaultLevel' = r.defaultLevel
      /\ last' = Call("setupFilters", 0,
                      [filterSpec |-> a_filterSpec,
                       defaultLevelSpec |-> a_defaultLevelSpec],
                      r.raised, "void", << >>)
      /\ UNCHANGED << clock, m_doThreadLog, m_serviceName, m_sinks, m_formatter,
                      m_indents, m_doMetadata, m_metadata, out, pc, nLogged, scopes,
                      asked, singleton >>

(* ---- simple setters ---------------------------------------------------- *)
addSink(a_sink) ==
  /\ Len(m_sinks) < MaxSinks
  /\ m_sinks' = Append(m_sinks, a_sink)
  /\ last' = Call("addSink", 0, [sink |-> a_sink], FALSE, "void", << >>)
  /\ UNCHANGED << clock, m_filters, m_defaultLevel, m_doThreadLog,
                  m_serviceName, m_formatter, m_indents, m_doMetadata,
                  m_metadata, out, pc, nLogged, scopes, asked, singleton >>

setFormatter(a_formatter) ==
  /\ m_formatter' = a_formatter
  /\ last' = Call("setFormatter", 0, [formatter |-> a_formatter], FALSE,
                  "void", << >>)
  /\ UNCHANGED << clock, m_filters, m_defaultLevel, m_doThreadLog,
                  m_serviceName, m_sinks, m_indents, m_doMetadata,
                  m_metadata, out, pc, nLogged, scopes, asked, singleton >>

enableThreadID ==
  /\ m_doThreadLog' = TRUE
  /\ asked' = TRUE
  /\ last' = Call("enableThreadID", 0, << >>, FALSE, "void", << >>)
  /\ UNCHANGED << clock, m_filters, m_defaultLevel, m_serviceName, m_sinks,
                  m_formatter, m_indents, m_doMetadata, m_metadata, out, pc,
                  nLogged, scopes, singleton >>

disableThreadID ==
  /\ m_doThreadLog' = FALSE
  /\ asked' = FALSE
  /\ last' = Call("disableThreadID", 0, << >>, FALSE, "void", << >>)
  /\ UNCHANGED << clock, m_filters, m_defaultLevel, m_serviceName, m_sinks,
                  m_formatter, m_indents, m_doMetadata, m_metadata, out, pc,
                  nLogged, scopes, singleton >>

setServiceName(a_serviceName) ==
  /\ m_serviceName' = a_serviceName
  /\ last' = Call("setServiceName", 0, [serviceName |-> a_serviceName], FALSE,
                  "void", << >>)
  /\ UNCHANGED << clock, m_filters, m_defaultLevel, m_doThreadLog, m_sinks,
                  m_formatter, m_indents, m_doMetadata, m_metadata, out, pc,
                  nLogged, scopes, asked, singleton >>

(* ---- filter and log ---------------------------------------------------- *)
(* mutant: the comparison is strict *)
filterResult_strict(filters, defaultLevel, a_channel, a_level) ==
  IF a_level = off THEN Throws("Logging to 'off' is not allowed")
  ELSE Returns((IF a_channel \in DOMAIN filters THEN filters[a_channel]
                ELSE defaultLevel) > a_level)

(* mutant: level off is not rejected *)
filterResult_noOffCheck(filters, defaultLevel, a_channel, a_level) ==
  Returns((IF a_channel \in DOMAIN filters THEN filters[a_channel]
           ELSE defaultLevel) >= a_level)

filterResult(filters, defaultLevel, a_channel, a_level) ==
  IF a_level = off THEN Throws("Logging to 'off' is not allowed")
  ELSE Returns((IF a_channel \in DOMAIN filters THEN filters[a_channel]
                ELSE defaultLevel) >= a_level)

filter(a_channel, a_level) ==
  filterResult(m_filters, m_defaultLevel, a_channel, a_level)

getIndentOf(indents, tid) == IF tid \notin DOMAIN indents THEN 0 ELSE indents[tid]
getIndent(tid) == getIndentOf(m_indents, tid)

(* the inner loop of log: one line to each sink, in m_sinks order *)
RECURSIVE sinkLoop(_, _, _)
sinkLoop(line, sinks, j) ==
  IF j > Len(sinks) THEN << >>
  ELSE << [sink |-> j, stream |-> sinks[j], line |-> line] >>
       \o sinkLoop(line, sinks, j + 1)

(* mutant: the loops are nested the other way, each sink gets all lines in turn *)
lineLoop_sinkMajor(lines, sinks, i) ==
  [k \in 1 .. Len(lines) * Len(sinks) |->
     LET j == ((k - 1) \div Len(lines)) + 1
         n == ((k - 1) % Len(lines)) + 1
     IN  [sink |-> j, stream |-> sinks[j], line |-> lines[n]]]

(* the outer loop of log: the formatted lines, in order *)
RECURSIVE lineLoop(_, _, _)
lineLoop(lines, sinks, i) ==
  IF i > Len(lines) THEN << >>
  ELSE sinkLoop(lines[i], sinks, 1) \o lineLoop(lines, sinks, i + 1)

(* mutant: log() filters by itself *)
logWrites_filtering(tid, a_channel, a_level, a_msg, a_mapData) ==
  IF m_formatter = "null" \/ filter(a_channel, a_level) # Returns(TRUE) THEN << >>
  ELSE LET entry == CLogEntry(a_channel, a_level, a_msg, a_mapData,
                              m_serviceName, getIndent(tid), tid)
       IN  lineLoop(formatEntry(m_formatter, entry, m_doThreadLog), m_sinks, 1)

(* mutant: a missing formatter is taken for the standard one *)
logWrites_noNullCheck(tid, a_channel, a_level, a_msg, a_mapData) ==
  LET entry == CLogEntry(a_channel, a_level, a_msg, a_mapData,
                         m_serviceName, getIndent(tid), tid)
  IN  lineLoop(formatEntry(m_formatter, entry, m_doThreadLog), m_sinks, 1)

(* the writes log() makes, in the order it makes them *)
logWrites(tid, a_channel, a_level, a_msg, a_mapData) ==
  IF m_formatter = "null" THEN << >>
  ELSE LET entry == CLogEntry(a_channel, a_level, a_msg, a_mapData,
                              m_serviceName, getIndent(tid), tid)
       IN  lineLoop(formatEntry(m_formatter, entry, m_doThreadLog), m_sinks, 1)

(* sink.get() << line *)
RECURSIVE Written(_, _)
Written(streams, writes) ==
  IF writes = << >> THEN streams
  ELSE Written([streams EXCEPT ![writes[1].stream] = Append(@, writes[1].line)],
               Tail(writes))

Fits(streams) == \A s \in Streams : Len(streams[s]) <= MaxOut

(* a direct call of filter(), as ALOG_IS_ENABLED makes it *)
Filter(tid, a_channel, a_level) ==
  /\ pc[tid] = Idle
  /\ LET r == filter(a_channel, a_level)
     IN  last' = Call("filter", tid, [channel |-> a_channel, level |-> a_level],
                      r.thrown, IF r.thrown THEN "void" ELSE r.val, << >>)
  /\ UNCHANGED << clock, registry, out, pc, nLogged, scopes, asked,
                  singleton >>

(* a direct call of log() *)
Log(tid, a_channel, a_level, a_msg, a_mapData) ==
  /\ pc[tid] = Idle
  /\ LET writes == logWrites(tid, a_channel, a_level, a_msg, a_mapData)
     IN  /\ Fits(Written(out, writes))
         /\ out' = Written(out, writes)
         /\ last' = Call("log", tid,
                         [channel |-> a_channel, level |-> a_level,
                          msg |-> a_msg, mapData |-> a_mapData],
                         FALSE, "void", writes)
  /\ UNCHANGED << clock, registry, pc, nLogged, scopes, asked, singleton >>

(* ---- ALOG_LEVEL_IMPL: if (filter(channel, level)) log(channel, level, ..) *)
(* mutant: the macro calls log() whatever filter() returned *)
ALOG_filter_unfiltered(tid, a_channel, a_level, a_msg, a_mapData) ==
  /\ pc[tid] = Idle
  /\ LET r == filter(a_channel, a_level)
     IN  /\ last' = Call("ALOG_filter", tid,
                         [channel |-> a_channel, level |-> a_level],
                         r.thrown, IF r.thrown THEN "void" ELSE r.val, << >>)
         /\ pc' = [pc EXCEPT ![tid] =
                     IF ~r.thrown
                     THEN [at |-> "log", channel |-> a_channel,
                           level |-> a_level, msg |-> a_msg,
                           mapData |-> a_mapData]
                     ELSE Idle]
  /\ UNCHANGED << clock, registry, out, nLogged, scopes, asked, singleton >>

ALOG_filter(tid, a_channel, a_level, a_msg, a_mapData) ==
  /\ pc[tid] = Idle
  /\ LET r == filter(a_channel, a_level)
     IN  /\ last' = Call("ALOG_filter", tid,
                         [channel |-> a_channel, level |-> a_level],
                         r.thrown, IF r.thrown THEN "void" ELSE r.val, << >>)
         /\ pc' = [pc EXCEPT ![tid] =
                     IF ~r.thrown /\ r.val
                     THEN [at |-> "log", channel |-> a_channel,
                           level |-> a_level, msg |-> a_msg,
                           mapData |-> a_mapData]
                     ELSE Idle]
  /\ UNCHANGED << clock, registry, out, nLogged, scopes, asked, singleton >>

ALOG_log(tid) ==
  /\ pc[tid].at = "log"
  /\ LET c == pc[tid]
         writes == logWrites(tid, c.channel, c.level, c.msg, c.mapData)
     IN  /\ Fits(Written(out, writes))
         /\ out' = Written(out, writes)
         /\ last' = Call("ALOG_log", tid,
                         [channel |-> c.channel, level |-> c.level,
                          msg |-> c.msg, mapData |-> c.mapData],
                         FALSE, "void", writes)
  /\ pc' = [pc EXCEPT ![tid] = Idle]
  /\ UNCHANGED << clock, registry, nLogged, scopes, asked, singleton >>

(* ---- log(), write by write ---------------------------------------------- *)
(* log() takes no lock.  "sink.get() << line" puts the characters of the   *)
(* line into the stream one run at a time, and another thread's log() may  *)
(* run between two of them.                                                *)
AllIdle == \A t \in Threads : pc[t] = Idle

(* the characters of a formatted line, as the stream receives them: the    *)
(* header, the atoms of the text, the line end                             *)
Chars(line) ==
  IF line.fmt = "std"
  THEN << [header |-> line.header] >>
       \o [i \in 1 .. Len(line.text) |-> [char |-> line.text[i]]]
       \o << [char |-> Newline] >>
  ELSE [i \in 1 .. Len(line.text) |-> [char |-> line.text[i]]]

(* thread tid is past the first character of a line it writes to stream s *)
MidLine(tid, s) ==
  /\ pc[tid].at = "write"
  /\ pc[tid].writes[pc[tid].w].stream = s
  /\ pc[tid].k > 1

(* what the stream holds after ch is put.  Two threads inside operator<<   *)
(* on one stream race on its put area: the character lands after what is   *)
(* there, or on the place of the other thread's last one.                  *)
Put(tid, s, ch) ==
  {Append(out[s], ch)}
  \cup {SubSeq(out[s], 1, Len(out[s]) - 1) \o << ch >> :
          u \in {u \in Threads \ {tid} : MidLine(u, s) /\ out[s] # << >>}}

(* entry of log(): the formatter check, the entry, the formatted lines *)
log_begin(tid, a_channel, a_level, a_msg, a_mapData) ==
  /\ pc[tid] = Idle
  /\ nLogged[tid] < MaxLogs
  /\ LET writes == logWrites(tid, a_channel, a_level, a_msg, a_mapData)
         args   == [channel |-> a_channel, level |-> a_level,
                    msg |-> a_msg, mapData |-> a_mapData]
     IN  IF writes = << >>
         THEN /\ last' = Call("log", tid, args, FALSE, "void", writes)
              /\ nLogged' = [nLogged EXCEPT ![tid] = @ + 1]
              /\ pc' = pc
         ELSE /\ pc' = [pc EXCEPT ![tid] =
                          [at |-> "write", args |-> args, writes |-> writes,
                           w |-> 1, k |-> 1]]
              /\ UNCHANGED << last, nLogged >>
  /\ UNCHANGED << clock, registry, out, scopes, asked, singleton >>

(* the next character of the current line goes to the current sink *)
log_write(tid) ==
  /\ pc[tid].at = "write"
  /\ LET c     == pc[tid]
         wr    == c.writes[c.w]
         chars == Chars(wr.line)
     IN  /\ \E content \in Put(tid, wr.stream, chars[c.k]) :
                out' = [out EXCEPT ![wr.stream] = content]
         /\ IF c.k < Len(chars)
            THEN /\ pc' = [pc EXCEPT ![tid].k = c.k + 1]
                 /\ UNCHANGED << last, nLogged >>
            ELSE IF c.w < Len(c.writes)
            THEN /\ pc' = [pc EXCEPT ![tid].w = c.w + 1, ![tid].k = 1]
                 /\ UNCHANGED << last, nLogged >>
            ELSE /\ pc' = [pc EXCEPT ![tid] = Idle]
                 /\ last' = Call("log", tid, c.args, FALSE, "void", c.writes)
                 /\ nLogged' = [nLogged EXCEPT ![tid] = @ + 1]
  /\ UNCHANGED << clock, registry, scopes, asked, singleton >>

(* ---- setupFilters and filter(), step by step ----------------------------- *)
(* setupFilters holds m_mutex from entry to return and assigns m_filters   *)
(* and then m_defaultLevel; filter() takes no lock and reads m_filters and *)
(* then, for a channel without an entry, m_defaultLevel.                   *)
Locked(tid) == pc[tid].at \in {"setup_assign", "setup_default", "indents_update"}
MutexFree == \A t \in Threads : ~Locked(t)

Config(filters, defaultLevel) == [filters |-> filters, defaultLevel |-> defaultLevel]

(* kept for the properties: the complete configurations in force while a   *)
(* filter() call runs, the one before a setupFilters call in progress and  *)
(* the one that call installs                                              *)
ConfigsInForce ==
  IF MutexFree THEN {Config(m_filters, m_defaultLevel)}
  ELSE UNION {{pc[u].old} \cup pc[u].new : u \in {u \in Threads : Locked(u)}}

(* entry of setupFilters: the lock, then parseFilterSpec *)
setupFilters_begin(tid, a_filterSpec, a_defaultLevelSpec) ==
  /\ pc[tid] = Idle
  /\ MutexFree
  /\ LET parsed == parseFilterSpec(a_filterSpec)
         lvl    == ParseLevel(a_defaultLevelSpec)
         args   == [filterSpec |-> a_filterSpec,
                    defaultLevelSpec |-> a_defaultLevelSpec]
         new    == IF lvl.thrown THEN {} ELSE {Config(parsed.val, lvl.val)}
     IN  IF parsed.thrown
         THEN /\ last' = Call("setupFilters", tid, args, TRUE, "void", << >>)
              /\ pc' = pc
         ELSE /\ pc' = [t \in Threads |->
                          IF t = tid
                          THEN [at |-> "setup_assign", args |-> args,
                                parsed |-> parsed.val,
                                old |-> Config(m_filters, m_defaultLevel),
                                new |-> new]
                          ELSE IF pc[t].at = "filter_compare"
                          THEN [pc[t] EXCEPT !.cfgs = @ \cup new]
                          ELSE pc[t]]
              /\ last' = last
  /\ UNCHANGED << clock, registry, out, nLogged, scopes, asked, singleton >>

(* m_filters = parseFilterSpec(a_filterSpec) *)
setupFilters_assign(tid) ==
  /\ pc[tid].at = "setup_assign"
  /\ m_filters' = pc[tid].parsed
  /\ pc' = [pc EXCEPT ![tid].at = "setup_default"]
  /\ UNCHANGED << clock,
                  m_defaultLevel, m_doThreadLog, m_doMetadata, m_serviceName,
                  m_sinks, m_formatter, m_indents, m_metadata, out, last,
                  nLogged, scopes, asked, singleton >>

(* m_defaultLevel = ParseLevel(a_defaultLevelSpec), and the return *)
setupFilters_default(tid) ==
  /\ pc[tid].at = "setup_default"
  /\ LET lvl == ParseLevel(pc[tid].args.defaultLevelSpec)
     IN  /\ m_defaultLevel' = IF lvl.thrown THEN m_defaultLevel ELSE lvl.val
         /\ last' = Call("setupFilters", tid, pc[tid].args, lvl.thrown,
                         "void", << >>)
  /\ pc' = [pc EXCEPT ![tid] = Idle]
  /\ UNCHANGED << clock, m_filters, m_doThreadLog, m_doMetadata, m_serviceName,
                  m_sinks, m_formatter, m_indents, m_metadata, out, nLogged, scopes,
                  asked, singleton >>

(* the tables m_filters.find can read from: a find that runs while another *)
(* thread assigns m_filters races with the assignment                      *)
TablesRead ==
  {m_filters} \cup {pc[u].parsed : u \in {u \in Threads : pc[u].at = "setup_assign"}}

(* entry of filter(): the check for off, then m_filters.find(a_channel) *)
filter_find(tid, a_channel, a_level) ==
  /\ pc[tid] = Idle
  /\ LET args == [channel |-> a_channel, level |-> a_level]
     IN  IF a_level = off
         THEN /\ last' = Call("filter", tid, args, TRUE, "void", << >>)
              /\ pc' = pc
         ELSE /\ \E table \in TablesRead :
                    pc' = [pc EXCEPT ![tid] =
                             [at |-> "filter_compare", args |-> args,
                              found |-> a_channel \in DOMAIN table,
                              second |-> IF a_channel \in DOMAIN table
                                         THEN table[a_channel] ELSE off,
                              cfgs |-> ConfigsInForce]]
              /\ last' = last
  /\ UNCHANGED << clock, registry, out, nLogged, scopes, asked, singleton >>

(* (iter != end ? iter->second : m_defaultLevel) >= a_level *)
filter_compare(tid) ==
  /\ pc[tid].at = "filter_compare"
  /\ last' = Call("filter", tid, pc[tid].args, FALSE,
                  (IF pc[tid].found THEN pc[tid].second ELSE m_defaultLevel)
                     >= pc[tid].args.level,
                  << >>)
  /\ pc' = [pc EXCEPT ![tid] = Idle]
  /\ UNCHANGED << clock, registry, out, nLogged, scopes, asked, singleton >>

(* ---- indentation ------------------------------------------------------- *)
addIndentOf(indents, tid) ==
  IF tid \notin DOMAIN indents
  THEN [t \in DOMAIN indents \cup {tid} |-> IF t = tid THEN 1 ELSE indents[t]]
  ELSE [indents EXCEPT ![tid] = @ + 1]

addIndent(tid) ==
  /\ getIndent(tid) < MaxIndent
  /\ m_indents' = addIndentOf(m_indents, tid)
  /\ last' = Call("addIndent", tid, [depth |-> getIndent(tid)], FALSE, "void",
                  << >>)
  /\ UNCHANGED << clock, m_filters, m_defaultLevel, m_doThreadLog, m_doMetadata,
                  m_serviceName, m_sinks, m_formatter, m_metadata, out, pc,
                  nLogged, scopes, asked, singleton >>

(* mutant: the counter is decremented whatever its value *)
removeIndentOf_unguarded(indents, tid) ==
  LET dec == IF tid \in DOMAIN indents
             THEN [indents EXCEPT ![tid] = @ - 1]
             ELSE [t \in DOMAIN indents \cup {tid} |->
                     IF t = tid THEN -1 ELSE indents[t]]
  IN  IF dec[tid] = 0 THEN [t \in DOMAIN dec \ {tid} |-> dec[t]] ELSE dec

removeIndentOf(indents, tid) ==
  LET dec == IF tid \in DOMAIN indents /\ indents[tid] > 0
             THEN [indents EXCEPT ![tid] = @ - 1] ELSE indents
  IN  IF tid \in DOMAIN dec /\ dec[tid] = 0
      THEN [t \in DOMAIN dec \ {tid} |-> dec[t]] ELSE dec

removeIndent(tid) ==
  /\ m_indents' = removeIndentOf(m_indents, tid)
  /\ last' = Call("removeIndent", tid, [depth |-> getIndent(tid)], FALSE,
                  "void", << >>)
  /\ UNCHANGED << clock, m_filters, m_defaultLevel, m_doThreadLog, m_doMetadata,
                  m_serviceName, m_sinks, m_formatter, m_metadata, out, pc,
                  nLogged, scopes, asked, singleton >>

(* ---- CLogScopedIndent ---------------------------------------------------- *)
(* A scope object lives on its thread's stack; C++ destroys the objects of *)
(* nested blocks innermost first.  depth is kept for the properties: the   *)
(* thread's indent when the object was constructed.                        *)
Push(tid, scope) == [scopes EXCEPT ![tid] = Append(@, scope)]
Pop(tid) == [scopes EXCEPT ![tid] = SubSeq(@, 1, Len(@) - 1)]
Top(tid) == scopes[tid][Len(scopes[tid])]

(* mutant: the constructor does not indent *)
CLogScopedIndent_ctor_noIndent(tid) ==
  /\ getIndent(tid) < MaxIndent
  /\ Len(scopes[tid]) < MaxScopes
  /\ scopes' = Push(tid, [kind |-> "CLogScopedIndent", depth |-> getIndent(tid)])
  /\ last' = Call("CLogScopedIndent", tid, [depth |-> getIndent(tid)], FALSE,
                  "void", << >>)
  /\ UNCHANGED << clock, registry, out, pc, nLogged, asked, singleton >>

(* CLogScopedIndent(): addIndent() *)
CLogScopedIndent_ctor(tid) ==
  /\ getIndent(tid) < MaxIndent
  /\ Len(scopes[tid]) < MaxScopes
  /\ m_indents' = addIndentOf(m_indents, tid)
  /\ scopes' = Push(tid, [kind |-> "CLogScopedIndent", depth |-> getIndent(tid)])
  /\ last' = Call("CLogScopedIndent", tid, [depth |-> getIndent(tid)], FALSE,
                  "void", << >>)
  /\ UNCHANGED << clock, m_filters, m_defaultLevel, m_doThreadLog, m_doMetadata,
                  m_serviceName, m_sinks, m_formatter, m_metadata, out, pc,
                  nLogged, asked, singleton >>

(* CLogScopedIndent(channel, level), declared in logger.h: indents when    *)
(* filter(channel, level) passes and keeps the outcome in m_enabled        *)
CLogScopedIndent_ctor_if(tid, a_channelName, a_level) ==
  /\ getIndent(tid) < MaxIndent
  /\ Len(scopes[tid]) < MaxScopes
  /\ LET r    == filter(a_channelName, a_level)
         args == [channel |-> a_channelName, level |-> a_level,
                  depth |-> getIndent(tid)]
     IN  IF r.thrown
         THEN /\ last' = Call("CLogScopedIndent", tid, args, TRUE, "void", << >>)
              /\ UNCHANGED << m_indents, scopes >>
         ELSE /\ m_indents' = IF r.val THEN addIndentOf(m_indents, tid)
                              ELSE m_indents
              /\ scopes' = Push(tid, [kind |-> "CLogScopedIndent",
                                      m_enabled |-> r.val,
                                      depth |-> getIndent(tid)])
              /\ last' = Call("CLogScopedIndent", tid, args, FALSE, r.val, << >>)
  /\ UNCHANGED << clock, m_filters, m_defaultLevel, m_doThreadLog, m_doMetadata,
                  m_serviceName, m_sinks, m_formatter, m_metadata, out, pc,
                  nLogged, asked, singleton >>

(* ~CLogScopedIndent(): removeIndent() *)
CLogScopedIndent_dtor(tid) ==
  /\ scopes[tid] # << >>
  /\ Top(tid).kind = "CLogScopedIndent"
  /\ m_indents' = removeIndentOf(m_indents, tid)
  /\ scopes' = Pop(tid)
  /\ last' = Call("~CLogScopedIndent", tid, [scope |-> Top(tid)], FALSE, "void",
                  << >>)
  /\ UNCHANGED << clock, m_filters, m_defaultLevel, m_doThreadLog, m_doMetadata,
                  m_serviceName, m_sinks, m_formatter, m_metadata, out, pc,
                  nLogged, asked, singleton >>

(* ---- m_indents, step by step ---------------------------------------------- *)
(* addIndent and removeIndent hold m_mutex; an insert or an erase relinks  *)
(* the nodes of the std::map while the lock is held.  getIndent, which     *)
(* log() calls through CLogEntry's constructor, takes no lock.             *)
addIndent_begin(tid) ==
  /\ pc[tid] = Idle
  /\ MutexFree
  /\ getIndent(tid) < MaxIndent
  /\ IF tid \in DOMAIN m_indents
     THEN /\ m_indents' = addIndentOf(m_indents, tid)
          /\ last' = Call("addIndent", tid, [depth |-> getIndent(tid)], FALSE,
                          "void", << >>)
          /\ pc' = pc
     ELSE /\ pc' = [pc EXCEPT ![tid] =
                      [at |-> "indents_update", op |-> "addIndent",
                       depth |-> getIndent(tid),
                       indents |-> addIndentOf(m_indents, tid)]]
          /\ UNCHANGED << m_indents, last >>
  /\ UNCHANGED << clock, m_filters, m_defaultLevel, m_doThreadLog, m_doMetadata,
                  m_serviceName, m_sinks, m_formatter, m_metadata, out,
                  nLogged, scopes, asked, singleton >>

removeIndent_begin(tid) ==
  /\ pc[tid] = Idle
  /\ MutexFree
  /\ IF DOMAIN removeIndentOf(m_indents, tid) = DOMAIN m_indents
     THEN /\ m_indents' = removeIndentOf(m_indents, tid)
          /\ last' = Call("removeIndent", tid, [depth |-> getIndent(tid)],
                          FALSE, "void", << >>)
          /\ pc' = pc
     ELSE /\ pc' = [pc EXCEPT ![tid] =
                      [at |-> "indents_update", op |-> "removeIndent",
                       depth |-> getIndent(tid),
                       indents |-> removeIndentOf(m_indents, tid)]]
          /\ UNCHANGED << m_indents, last >>
  /\ UNCHANGED << clock, m_filters, m_defaultLevel, m_doThreadLog, m_doMetadata,
                  m_serviceName, m_sinks, m_formatter, m_metadata, out,
                  nLogged, scopes, asked, singleton >>

(* the insert or the erase is complete; the call returns *)
indents_update(tid) ==
  /\ pc[tid].at = "indents_update"
  /\ m_indents' = pc[tid].indents
  /\ last' = Call(pc[tid].op, tid, [depth |-> pc[tid].depth], FALSE, "void",
                  << >>)
  /\ pc' = [pc EXCEPT ![tid] = Idle]
  /\ UNCHANGED << clock, m_filters, m_defaultLevel, m_doThreadLog, m_doMetadata,
                  m_serviceName, m_sinks, m_formatter, m_metadata, out,
                  nLogged, scopes, asked, singleton >>

(* what m_indents.find(tid) can give: a find that runs while another       *)
(* thread relinks the map races with it and may miss the node of tid       *)
IndentsRead(tid) ==
  {getIndent(tid)}
  \cup {0 : u \in {u \in Threads \ {tid} : pc[u].at = "indents_update"}}

(* a call of getIndent() *)
GetIndent(tid) ==
  /\ pc[tid] = Idle
  /\ \E n \in IndentsRead(tid) :
        last' = Call("getIndent", tid, [depth |-> getIndent(tid)], FALSE, n,
                     << >>)
  /\ UNCHANGED << clock, registry, out, pc, nLogged, scopes, asked,
                  singleton >>

(* a call of log(), the entry built from what getIndent() gave *)
log_entry(tid, a_channel, a_level, a_msg, a_mapData) ==
  /\ pc[tid] = Idle
  /\ m_formatter # "null"
  /\ \E n \in IndentsRead(tid) :
        LET entry  == CLogEntry(a_channel, a_level, a_msg, a_mapData,
                                m_serviceName, n, tid)
            writes == lineLoop(formatEntry(m_formatter, entry, m_doThreadLog),
                               m_sinks, 1)
        IN  /\ Fits(Written(out, writes))
            /\ out' = Written(out, writes)
            /\ last' = Call("log", tid,
                            [channel |-> a_channel, level |-> a_level,
                             msg |-> a_msg, mapData |-> a_mapData,
                             depth |-> getIndent(tid)],
                            FALSE, "void", writes)
  /\ UNCHANGED << clock, registry, pc, nLogged, scopes, asked, singleton >>

(* ---- metadata ----------------------------------------------------------- *)
(* enableMetadata, disableMetadata and addMetadata are declared in         *)
(* logger.h; they write the flag m_doMetadata and the calling thread's     *)
(* object in m_metadata.                                                   *)
enableMetadata ==
  /\ m_doMetadata' = TRUE
  /\ last' = Call("enableMetadata", 0, << >>, FALSE, "void", << >>)
  /\ UNCHANGED << clock,
                  m_filters, m_defaultLevel, m_doThreadLog, m_serviceName,
                  m_sinks, m_formatter, m_indents, m_metadata, out, pc,
                  nLogged, scopes, asked, singleton >>

disableMetadata ==
  /\ m_doMetadata' = FALSE
  /\ last' = Call("disableMetadata", 0, << >>, FALSE, "void", << >>)
  /\ UNCHANGED << clock,
                  m_filters, m_defaultLevel, m_doThreadLog, m_serviceName,
                  m_sinks, m_formatter, m_indents, m_metadata, out, pc,
                  nLogged, scopes, asked, singleton >>

getMetadataOf(metadata, tid) ==
  IF tid \in DOMAIN metadata THEN metadata[tid] ELSE NoMap

(* object[a_key] = a_value: the member is replaced, or added at the end *)
ObjectPut(object, a_key, a_value) ==
  IF a_key \in MapKeys(object)
  THEN [i \in DOMAIN object |->
          IF object[i].key = a_key THEN [key |-> a_key, value |-> a_value]
          ELSE object[i]]
  ELSE Append(object, [key |-> a_key, value |-> a_value])

addMetadata(tid, a_key, a_value) ==
  /\ m_metadata' =
       [t \in DOMAIN m_metadata \cup {tid} |->
          IF t = tid
          THEN ObjectPut(getMetadataOf(m_metadata, tid), a_key, a_value)
          ELSE m_metadata[t]]
  /\ last' = Call("addMetadata", tid, [key |-> a_key, value |-> a_value],
                  FALSE, "void", << >>)
  /\ UNCHANGED << clock, m_filters, m_defaultLevel, m_doThreadLog, m_doMetadata,
                  m_serviceName, m_sinks, m_formatter, m_indents, out, pc,
                  nLogged, scopes, asked, singleton >>

(* ---- reset ------------------------------------------------------------- *)
(* mutant: the indent map is kept *)
reset_keepIndents ==
  /\ m_sinks' = << >>
  /\ m_filters' = EmptyMap
  /\ m_defaultLevel' = off
  /\ m_doThreadLog' = FALSE
  /\ m_serviceName' = EmptyStr
  /\ m_formatter' = "std"
  /\ asked' = FALSE
  /\ last' = Call("reset", 0, << >>, FALSE, "void", << >>)
  /\ UNCHANGED << clock, m_indents, m_doMetadata, m_metadata, out, pc, nLogged,
                  scopes, singleton >>

reset ==
  /\ m_sinks' = << >>
  /\ m_filters' = EmptyMap
  /\ m_defaultLevel' = off
  /\ m_doThreadLog' = FALSE
  /\ m_serviceName' = EmptyStr
  /\ m_indents' = [t \in {} |-> 0]
  /\ m_formatter' = "std"
  /\ asked' = FALSE
  /\ last' = Call("reset", 0, << >>, FALSE, "void", << >>)
  /\ UNCHANGED << clock, m_doMetadata, m_metadata, out, pc, nLogged, scopes,
                  singleton >>

(* ---- the level names, called directly ------------------------------------ *)
(* a call of ParseLevel(), declared in logger.h for callers *)
ParseLevelCall(a_str) ==
  /\ LET r == ParseLevel(a_str)
     IN  last' = Call("ParseLevel", 0, [str |-> a_str], r.thrown,
                      IF r.thrown THEN "void" ELSE r.val, << >>)
  /\ UNCHANGED << clock, registry, out, pc, nLogged, scopes, asked,
                  singleton >>

(* a call of LevelToHumanString() *)
LevelToHumanStringCall(a_level) ==
  /\ last' = Call("LevelToHumanString", 0, [level |-> a_level], FALSE,
                  LevelToHumanString(a_level), << >>)
  /\ UNCHANGED << clock, registry, out, pc, nLogged, scopes, asked,
                  singleton >>

(* ---- CLogScope ------------------------------------------------------------ *)
(* The constructor and the destructor are one ALOG_LEVEL_IMPL each:        *)
(* filter(m_logName, m_level), then log() when it passed.  len0 is kept    *)
(* for the properties: what each stream held when the object was made.     *)
FitsBlock(streams) == \A s \in Streams : Len(streams[s]) <= MaxBlockOut

(* mutant: the constructor logs nothing *)
CLogScope_ctor_silent(tid, a_logName, a_level, a_msg) ==
  /\ pc[tid] = Idle
  /\ Len(scopes[tid]) < MaxScopes
  /\ LET r    == filter(a_logName, a_level)
         args == [channel |-> a_logName, level |-> a_level, msg |-> a_msg]
     IN  IF r.thrown
         THEN /\ last' = Call("CLogScope", tid, args, TRUE, "void", << >>)
              /\ UNCHANGED << scopes, pc >>
         ELSE /\ scopes' = Push(tid, [kind |-> "CLogScope", m_logName |-> a_logName,
                                      m_level |-> a_level, m_msg |-> a_msg,
                                      len0 |-> [s \in Streams |-> Len(out[s])]])
              /\ pc' = pc
              /\ last' = Call("CLogScope", tid, args, FALSE, FALSE, << >>)
  /\ UNCHANGED << clock, registry, out, nLogged, asked, singleton >>

(* CLogScope(a_logName, a_level, a_msg): the filter() call of the macro *)
CLogScope_ctor(tid, a_logName, a_level, a_msg) ==
  /\ pc[tid] = Idle
  /\ Len(scopes[tid]) < MaxScopes
  /\ LET r    == filter(a_logName, a_level)
         args == [channel |-> a_logName, level |-> a_level, msg |-> a_msg]
     IN  IF r.thrown
         THEN /\ last' = Call("CLogScope", tid, args, TRUE, "void", << >>)
              /\ UNCHANGED << scopes, pc >>
         ELSE /\ scopes' = Push(tid, [kind |-> "CLogScope", m_logName |-> a_logName,
                                      m_level |-> a_level, m_msg |-> a_msg,
                                      len0 |-> [s \in Streams |-> Len(out[s])]])
              /\ IF r.val
                 THEN /\ pc' = [pc EXCEPT ![tid] =
                                  [at |-> "scope_log", op |-> "CLogScope",
                                   channel |-> a_logName, level |-> a_level,
                                   msg |-> << "Start: " >> \o a_msg,
                                   scope |-> << >>]]
                      /\ last' = last
                 ELSE /\ pc' = pc
                      /\ last' = Call("CLogScope", tid, args, FALSE, FALSE, << >>)
  /\ UNCHANGED << clock, registry, out, nLogged, asked, singleton >>

(* ~CLogScope(): the filter() call of the macro; the object is the         *)
(* innermost one of its thread                                             *)
CLogScope_dtor(tid) ==
  /\ pc[tid] = Idle
  /\ scopes[tid] # << >>
  /\ Top(tid).kind = "CLogScope"
  /\ LET sc   == Top(tid)
         r    == filter(sc.m_logName, sc.m_level)
         args == [channel |-> sc.m_logName, level |-> sc.m_level,
                  msg |-> sc.m_msg, scope |-> sc]
     IN  IF ~r.thrown /\ r.val
         THEN /\ pc' = [pc EXCEPT ![tid] =
                          [at |-> "scope_log", op |-> "~CLogScope",
                           channel |-> sc.m_logName, level |-> sc.m_level,
                           msg |-> << "End: " >> \o sc.m_msg,
                           scope |-> << sc >>]]
              /\ last' = last
         ELSE /\ pc' = pc
              /\ last' = Call("~CLogScope", tid, args, r.thrown,
                              IF r.thrown THEN "void" ELSE FALSE, << >>)
  /\ scopes' = Pop(tid)
  /\ UNCHANGED << clock, registry, out, nLogged, asked, singleton >>

(* the log() call of the macro, and the return of the constructor or the   *)
(* destructor                                                              *)
CLogScope_log(tid) ==
  /\ pc[tid].at = "scope_log"
  /\ LET c      == pc[tid]
         writes == logWrites(tid, c.channel, c.level, c.msg, NoMap)
     IN  /\ FitsBlock(Written(out, writes))
         /\ out' = Written(out, writes)
         /\ last' = Call(c.op, tid,
                         [channel |-> c.channel, level |-> c.level,
                          msg |-> SubSeq(c.msg, 2, Len(c.msg)),
                          scope |-> c.scope],
                         FALSE, TRUE, writes)
  /\ pc' = [pc EXCEPT ![tid] = Idle]
  /\ UNCHANGED << clock, registry, nLogged, scopes, asked, singleton >>

(* a log() call of the thread's own, between its scope objects *)
BlockLog(tid, a_channel, a_level, a_msg) ==
  /\ pc[tid] = Idle
  /\ LET writes == logWrites(tid, a_channel, a_level, a_msg, NoMap)
     IN  /\ FitsBlock(Written(out, writes))
         /\ out' = Written(out, writes)
         /\ last' = Call("log", tid,
                         [channel |-> a_channel, level |-> a_level,
                          msg |-> a_msg, mapData |-> NoMap],
                         FALSE, "void", writes)
  /\ UNCHANGED << clock, registry, pc, nLogged, scopes, asked, singleton >>

(* ---- CLogScopedTimer ------------------------------------------------------ *)
(* the clock moves on to a later reading *)
ClockReadings == {ClockStart, 905, 5005, 3000005, 1200000005}
Tick ==
  /\ \E r \in ClockReadings : r > clock /\ clock' = r
  /\ UNCHANGED << registry, out, pc, last, nLogged, scopes, asked, singleton >>

(* "ss << val": a float goes out with six significant digits *)
Round6(n) ==
  LET p == IF n < 1000000 THEN 1
           ELSE IF n < 10000000 THEN 10
           ELSE IF n < 100000000 THEN 100
           ELSE IF n < 1000000000 THEN 1000
           ELSE 10000
  IN  ((n + (p \div 2)) \div p) * p

(* the duration as the destructor renders it: the count of nanoseconds,    *)
(* the power of ten that scales it to the unit, the unit                   *)
DurationText(ns) ==
  IF      ns >= 100000000 THEN << ToString(Round6(ns)), "e-9", "s" >>
  ELSE IF ns >= 1000000   THEN << ToString(Round6(ns)), "e-6", "ms" >>
  ELSE IF ns >= 1000      THEN << ToString(Round6(ns)), "e-3", "us" >>
  ELSE << ToString(Round6(ns)), "e-0", "ns" >>

(* CLogScopedTimer(a_logName, a_level, a_msg): m_t0 is value-initialised,  *)
(* the clock's epoch, and set to now() when filter() passes.  born is kept *)
(* for the properties: the clock's reading at construction.                *)
CLogScopedTimer_ctor(tid, a_logName, a_level, a_msg) ==
  /\ pc[tid] = Idle
  /\ Len(scopes[tid]) < MaxScopes
  /\ LET r    == filter(a_logName, a_level)
         args == [channel |-> a_logName, level |-> a_level, msg |-> a_msg]
     IN  IF r.thrown
         THEN /\ last' = Call("CLogScopedTimer", tid, args, TRUE, "void", << >>)
              /\ scopes' = scopes
         ELSE /\ scopes' = Push(tid, [kind |-> "CLogScopedTimer",
                                      m_logName |-> a_logName,
                                      m_level |-> a_level, m_msg |-> a_msg,
                                      m_t0 |-> IF r.val THEN clock ELSE 0,
                                      born |-> clock])
              /\ last' = Call("CLogScopedTimer", tid, args, FALSE, r.val, << >>)
  /\ UNCHANGED << clock, registry, out, pc, nLogged, asked, singleton >>

(* ~CLogScopedTimer(): filter(), and when it passes t1 = now() and the     *)
(* message; the object is the innermost one of its thread                  *)
CLogScopedTimer_dtor(tid) ==
  /\ pc[tid] = Idle
  /\ scopes[tid] # << >>
  /\ Top(tid).kind = "CLogScopedTimer"
  /\ LET sc   == Top(tid)
         r    == filter(sc.m_logName, sc.m_level)
         args == [scope |-> sc, t1 |-> clock]
     IN  IF ~r.thrown /\ r.val
         THEN /\ pc' = [pc EXCEPT ![tid] =
                          [at |-> "timer_filter", args |-> args,
                           msg |-> sc.m_msg \o DurationText(clock - sc.m_t0)]]
              /\ last' = last
         ELSE /\ pc' = pc
              /\ last' = Call("~CLogScopedTimer", tid, args, r.thrown,
                              IF r.thrown THEN "void" ELSE FALSE, << >>)
  /\ scopes' = Pop(tid)
  /\ UNCHANGED << clock, registry, out, nLogged, asked, singleton >>

(* ALOG_LEVEL_IMPL in the destructor: its filter() call *)
CLogScopedTimer_filter(tid) ==
  /\ pc[tid].at = "timer_filter"
  /\ LET sc == pc[tid].args.scope
         r  == filter(sc.m_logName, sc.m_level)
     IN  IF ~r.thrown /\ r.val
         THEN /\ pc' = [pc EXCEPT ![tid].at = "timer_log"]
              /\ last' = last
         ELSE /\ pc' = [pc EXCEPT ![tid] = Idle]
              /\ last' = Call("~CLogScopedTimer", tid, pc[tid].args, r.thrown,
                              IF r.thrown THEN "void" ELSE FALSE, << >>)
  /\ UNCHANGED << clock, registry, out, nLogged, scopes, asked, singleton >>

(* ALOG_LEVEL_IMPL in the destructor: its log() call, and the return *)
CLogScopedTimer_log(tid) ==
  /\ pc[tid].at = "timer_log"
  /\ LET sc     == pc[tid].args.scope
         writes == logWrites(tid, sc.m_logName, sc.m_level, pc[tid].msg, NoMap)
     IN  /\ FitsBlock(Written(out, writes))
         /\ out' = Written(out, writes)
         /\ last' = Call("~CLogScopedTimer", tid, pc[tid].args, FALSE, TRUE,
                         writes)
  /\ pc' = [pc EXCEPT ![tid] = Idle]
  /\ UNCHANGED << clock, registry, nLogged, scopes, asked, singleton >>

(* ---- removeMetadata, clearMetadata, CLogScopedMetadata ---------------------- *)
(* declared in logger.h: removeMetadata takes a key out of the calling     *)
(* thread's object, clearMetadata empties the object, and a                *)
(* CLogScopedMetadata adds its pairs when constructed, keeps their keys in *)
(* m_keys and removes those keys when destroyed.                           *)
ObjectRemove(object, a_key) == SelectSeq(object, LAMBDA e : e.key # a_key)

RECURSIVE ObjectPutAll(_, _)
ObjectPutAll(object, pairs) ==
  IF pairs = << >> THEN object
  ELSE ObjectPutAll(ObjectPut(object, pairs[1].key, pairs[1].value), Tail(pairs))

RECURSIVE ObjectRemoveAll(_, _)
ObjectRemoveAll(object, keys) ==
  IF keys = << >> THEN object
  ELSE ObjectRemoveAll(ObjectRemove(object, keys[1]), Tail(keys))

(* the map with the object of tid replaced *)
MetadataWith(tid, object) ==
  [t \in DOMAIN m_metadata \cup {tid} |-> IF t = tid THEN object ELSE m_metadata[t]]

removeMetadata(tid, a_key) ==
  /\ m_metadata' = IF tid \in DOMAIN m_metadata
                   THEN MetadataWith(tid, ObjectRemove(m_metadata[tid], a_key))
                   ELSE m_metadata
  /\ last' = Call("removeMetadata", tid,
                  [key |-> a_key, before |-> getMetadataOf(m_metadata, tid)],
                  FALSE, "void", << >>)
  /\ UNCHANGED << clock, m_filters, m_defaultLevel, m_doThreadLog, m_doMetadata,
                  m_serviceName, m_sinks, m_formatter, m_indents, out, pc,
                  nLogged, scopes, asked, singleton >>

clearMetadata(tid) ==
  /\ m_metadata' = IF tid \in DOMAIN m_metadata
                   THEN MetadataWith(tid, NoMap) ELSE m_metadata
  /\ last' = Call("clearMetadata", tid, << >>, FALSE, "void", << >>)
  /\ UNCHANGED << clock, m_filters, m_defaultLevel, m_doThreadLog, m_doMetadata,
                  m_serviceName, m_sinks, m_formatter, m_indents, out, pc,
                  nLogged, scopes, asked, singleton >>

(* CLogScopedMetadata(map); the constructor for one key and value is the   *)
(* case of a map with one member                                           *)
CLogScopedMetadata_ctor(tid, a_map) ==
  /\ Len(scopes[tid]) < MaxScopes
  /\ m_metadata' = MetadataWith(tid, ObjectPutAll(getMetadataOf(m_metadata, tid),
                                                  a_map))
  /\ scopes' = Push(tid, [kind |-> "CLogScopedMetadata",
                          m_keys |-> [i \in DOMAIN a_map |-> a_map[i].key]])
  /\ last' = Call("CLogScopedMetadata", tid, [map |-> a_map], FALSE, "void",
                  << >>)
  /\ UNCHANGED << clock, m_filters, m_defaultLevel, m_doThreadLog, m_doMetadata,
                  m_serviceName, m_sinks, m_formatter, m_indents, out, pc,
                  nLogged, asked, singleton >>

(* mutant: the destructor clears the thread's metadata *)
CLogScopedMetadata_dtor_clearing(tid) ==
  /\ scopes[tid] # << >>
  /\ Top(tid).kind = "CLogScopedMetadata"
  /\ m_metadata' = IF tid \in DOMAIN m_metadata
                   THEN MetadataWith(tid, NoMap) ELSE m_metadata
  /\ scopes' = Pop(tid)
  /\ last' = Call("~CLogScopedMetadata", tid,
                  [keys |-> Top(tid).m_keys,
                   before |-> getMetadataOf(m_metadata, tid)],
                  FALSE, "void", << >>)
  /\ UNCHANGED << clock, m_filters, m_defaultLevel, m_doThreadLog, m_doMetadata,
                  m_serviceName, m_sinks, m_formatter, m_indents, out, pc,
                  nLogged, asked, singleton >>

(* ~CLogScopedMetadata(): removeMetadata for each key of m_keys *)
CLogScopedMetadata_dtor(tid) ==
  /\ scopes[tid] # << >>
  /\ Top(tid).kind = "CLogScopedMetadata"
  /\ m_metadata' = IF tid \in DOMAIN m_metadata
                   THEN MetadataWith(tid, ObjectRemoveAll(m_metadata[tid],
                                                          Top(tid).m_keys))
                   ELSE m_metadata
  /\ scopes' = Pop(tid)
  /\ last' = Call("~CLogScopedMetadata", tid,
                  [keys |-> Top(tid).m_keys,
                   before |-> getMetadataOf(m_metadata, tid)],
                  FALSE, "void", << >>)
  /\ UNCHANGED << clock, m_filters, m_defaultLevel, m_doThreadLog, m_doMetadata,
                  m_serviceName, m_sinks, m_formatter, m_indents, out, pc,
                  nLogged, asked, singleton >>

(* ---- ALOG_THREAD ------------------------------------------------------------ *)
(* The macro is five calls on the registry: threadIDEnabled(),             *)
(* enableThreadID() when that gave false, filter(), log() when that gave   *)
(* true, and disableThreadID() when the first gave false.  Other threads'  *)
(* calls may fall between any two of them.  The flag's setters are called  *)
(* by the macro here, not by the program: asked stays as it is.            *)
ALOG_THREAD_read(tid, a_channel, a_level, a_msg) ==
  /\ pc[tid] = Idle
  /\ pc' = [pc EXCEPT ![tid] =
              [at |-> "thread_enable", channel |-> a_channel,
               level |-> a_level, msg |-> a_msg,
               currentlyEnabled |-> m_doThreadLog]]
  /\ UNCHANGED << clock, registry, out, last, nLogged, scopes, asked,
                  singleton >>

ALOG_THREAD_enable(tid) ==
  /\ pc[tid].at = "thread_enable"
  /\ m_doThreadLog' = IF ~pc[tid].currentlyEnabled THEN TRUE ELSE m_doThreadLog
  /\ pc' = [pc EXCEPT ![tid].at = "thread_filter"]
  /\ UNCHANGED << clock, m_filters, m_defaultLevel, m_doMetadata, m_serviceName,
                  m_sinks, m_formatter, m_indents, m_metadata, out, last,
                  nLogged, scopes, asked, singleton >>

(* filter() throws for level off, and the exception leaves the macro *)
ALOG_THREAD_filter(tid) ==
  /\ pc[tid].at = "thread_filter"
  /\ LET c == pc[tid]
         r == filter(c.channel, c.level)
     IN  IF r.thrown
         THEN /\ pc' = [pc EXCEPT ![tid] = Idle]
              /\ last' = Call("ALOG_THREAD", tid,
                              [channel |-> c.channel, level |-> c.level,
                               msg |-> c.msg], TRUE, "void", << >>)
         ELSE /\ pc' = [pc EXCEPT ![tid].at =
                          IF r.val THEN "thread_log" ELSE "thread_disable"]
              /\ last' = last
  /\ UNCHANGED << clock, registry, out, nLogged, scopes, asked, singleton >>

ALOG_THREAD_log(tid) ==
  /\ pc[tid].at = "thread_log"
  /\ LET c      == pc[tid]
         writes == logWrites(tid, c.channel, c.level, c.msg, NoMap)
     IN  /\ Fits(Written(out, writes))
         /\ out' = Written(out, writes)
         /\ last' = Call("ALOG_THREAD_log", tid,
                         [channel |-> c.channel, level |-> c.level,
                          msg |-> c.msg, mapData |-> NoMap],
                         FALSE, "void", writes)
  /\ pc' = [pc EXCEPT ![tid].at = "thread_disable"]
  /\ UNCHANGED << clock, registry, nLogged, scopes, asked, singleton >>

ALOG_THREAD_disable(tid) ==
  /\ pc[tid].at = "thread_disable"
  /\ m_doThreadLog' = IF ~pc[tid].currentlyEnabled THEN FALSE ELSE m_doThreadLog
  /\ last' = Call("ALOG_THREAD", tid,
                  [channel |-> pc[tid].channel, level |-> pc[tid].level,
                   msg |-> pc[tid].msg], FALSE, "void", << >>)
  /\ pc' = [pc EXCEPT ![tid] = Idle]
  /\ UNCHANGED << clock, m_filters, m_defaultLevel, m_doMetadata, m_serviceName,
                  m_sinks, m_formatter, m_indents, m_metadata, out, nLogged,
                  scopes, asked, singleton >>

(* ---- log(), the entry and then the formatting ----------------------------- *)
(* log() builds the CLogEntry, which reads the service name and the indent *)
(* from the registry, and then has the formatter format it, which reads    *)
(* the thread-id flag; other threads' calls may fall between the two.      *)
(* threadIDEnabled0 is kept for the properties: the flag when the entry    *)
(* was built.                                                              *)
log_CLogEntry(tid, a_channel, a_level, a_msg, a_mapData) ==
  /\ pc[tid] = Idle
  /\ m_formatter # "null"
  /\ pc' = [pc EXCEPT ![tid] =
              [at |-> "log_formatEntry",
               entry |-> CLogEntry(a_channel, a_level, a_msg, a_mapData,
                                   m_serviceName, getIndent(tid), tid),
               threadIDEnabled0 |-> m_doThreadLog]]
  /\ UNCHANGED << clock, registry, out, last, nLogged, scopes, asked,
                  singleton >>

(* m_formatter->formatEntry(std::move(entry)) and the writes *)
log_formatEntry(tid) ==
  /\ pc[tid].at = "log_formatEntry"
  /\ LET c      == pc[tid]
         writes == lineLoop(formatEntry(m_formatter, c.entry, m_doThreadLog),
                            m_sinks, 1)
     IN  /\ Fits(Written(out, writes))
         /\ out' = Written(out, writes)
         /\ last' = Call("log_formatEntry", tid,
                         [entry |-> c.entry, formatter |-> m_formatter,
                          threadIDEnabled0 |-> c.threadIDEnabled0,
                          sinks |-> m_sinks],
                         FALSE, "void", writes)
  /\ pc' = [pc EXCEPT ![tid] = Idle]
  /\ UNCHANGED << clock, registry, nLogged, scopes, asked, singleton >>

(* ---- instance() ------------------------------------------------------------- *)
(* the program's start: the static Ptr is empty and no registry exists *)
InitInstance ==
  /\ m_filters = EmptyMap
  /\ m_defaultLevel = off
  /\ m_doThreadLog = FALSE
  /\ m_doMetadata = FALSE
  /\ m_serviceName = EmptyStr
  /\ m_sinks = << >>
  /\ m_formatter = "std"
  /\ m_indents = [t \in {} |-> 0]
  /\ m_metadata = [t \in {} |-> NoMap]
  /\ out = [s \in Streams |-> << >>]
  /\ pc = [t \in Threads |-> Idle]
  /\ last = NoCall
  /\ nLogged = [t \in Threads |-> 0]
  /\ scopes = [t \in Threads |-> << >>]
  /\ clock = ClockStart
  /\ asked = FALSE
  /\ m_pInstance = 0
  /\ registries = << >>

(* new CLogChannelRegistrySingleton(): no formatter, no service name *)
Constructed == [m_formatter |-> "null", m_serviceName |-> EmptyStr]

(* if (not m_pInstance): no lock is taken and nothing orders the test      *)
(* before another thread's assignment                                      *)
instance_test(tid) ==
  /\ pc[tid] = Idle
  /\ pc' = [pc EXCEPT ![tid] =
              [at |-> IF m_pInstance = 0 THEN "instance_new"
                      ELSE "instance_return"]]
  /\ UNCHANGED << clock, registry, out, last, nLogged, scopes, asked, singleton >>

(* m_pInstance = Ptr(new CLogChannelRegistrySingleton()) *)
instance_new(tid) ==
  /\ pc[tid].at = "instance_new"
  /\ registries' = Append(registries, Constructed)
  /\ m_pInstance' = Len(registries) + 1
  /\ pc' = [pc EXCEPT ![tid].at = "instance_setFormatter"]
  /\ UNCHANGED << clock, registry, out, last, nLogged, scopes, asked >>

(* m_pInstance->setFormatter(new CStdLogFormatter), on the registry the    *)
(* Ptr points to now                                                       *)
instance_setFormatter(tid) ==
  /\ pc[tid].at = "instance_setFormatter"
  /\ registries' = [registries EXCEPT ![m_pInstance].m_formatter = "std"]
  /\ pc' = [pc EXCEPT ![tid].at = "instance_return"]
  /\ UNCHANGED << clock, registry, out, last, nLogged, scopes, asked, m_pInstance >>

(* return m_pInstance, and the caller's instance()->setServiceName(name)   *)
(* on the registry the returned reference gives                            *)
instance_return(tid, a_serviceName) ==
  /\ pc[tid].at = "instance_return"
  /\ registries' = [registries EXCEPT ![m_pInstance].m_serviceName = a_serviceName]
  /\ last' = Call("instance", tid, [serviceName |-> a_serviceName], FALSE,
                  m_pInstance, << >>)
  /\ pc' = [pc EXCEPT ![tid] = Idle]
  /\ UNCHANGED << clock, registry, out, nLogged, scopes, asked, m_pInstance >>

(* ---- specifications ---------------------------------------------------- *)
(* Each registry method is one step: the specifications below cover the    *)
(* runs in which no two calls on the registry overlap in time.  The        *)
(* call-site macro is two calls, filter() and then log(), and other        *)
(* threads' calls may fall between them.                                   *)
(*                                                                         *)
(* Spec: sinks, formatter and logging, under the configuration of the      *)
(* end-to-end example (default error, A:info) or none.                     *)
LogChannels == {<< "A" >>, << "B" >>}
LogLevels == {off, info}
LogMessages == {EmptyStr, << "h", Newline, "g" >>}
LogMaps == {NoMap}
LogFormatters == {"null", "std"}

Next ==
  \/ setupFilters(<< "A", Colon, "info" >>, << "error" >>)
  \/ \E s \in Streams : addSink(s)
  \/ \E f \in LogFormatters : setFormatter(f)
  \/ \E t \in Threads, c \in LogChannels, l \in LogLevels : Filter(t, c, l)
  \/ \E t \in Threads, c \in LogChannels, l \in LogLevels,
        m \in LogMessages, d \in LogMaps : Log(t, c, l, m, d)
  \/ \E t \in Threads, c \in LogChannels, l \in LogLevels,
        m \in LogMessages, d \in LogMaps : ALOG_filter(t, c, l, m, d)
  \/ \E t \in Threads : ALOG_log(t)
  \/ reset

Spec == Init /\ [][Next]_vars

(* SpecFilter: configuration and queries.  Every filter spec string of up   *)
(* to MaxSpecLen atoms is tried; each setupFilters call is followed by a   *)
(* query or a reset before the next one.                                   *)
QueryLevels == {off, error, info, trace}

NextFilter ==
  \/ \E fs \in FilterSpecs, ds \in DefaultLevelSpecs :
        last.op # "setupFilters" /\ setupFilters(fs, ds)
  \/ \E c \in Channels, l \in QueryLevels : Filter(1, c, l)
  \/ reset

SpecFilter == Init /\ [][NextFilter]_vars

(* SpecWrite: the threads log single-line messages to one sink at the same *)
(* time, each thread its own message, up to MaxLogs times.  The sink is    *)
(* registered before the first log() call.                                 *)
WriteMessage(t) == IF t = 1 THEN << "h" >> ELSE << "g" >>

NextWrite ==
  \/ /\ m_sinks = << >> /\ AllIdle /\ \A t \in Threads : nLogged[t] = 0
     /\ addSink("s1")
  \/ \E t \in Threads : log_begin(t, << "A" >>, info, WriteMessage(t), NoMap)
  \/ \E t \in Threads : log_write(t)

SpecWrite == Init /\ [][NextWrite]_vars

(* SpecSwap: threads reconfigure and query at the same time.  The filter   *)
(* specs and the default levels are valid ones.                            *)
SwapFilterSpecs == {<< "A", Colon, "info" >>, << "B", Colon, "info" >>}
SwapDefaultLevelSpecs == {<< "off" >>, << "info" >>}
SwapLevels == {off, info}

NextSwap ==
  \/ \E t \in Threads, fs \in SwapFilterSpecs, ds \in SwapDefaultLevelSpecs :
        setupFilters_begin(t, fs, ds)
  \/ \E t \in Threads : setupFilters_assign(t)
  \/ \E t \in Threads : setupFilters_default(t)
  \/ \E t \in Threads, c \in LogChannels, l \in SwapLevels : filter_find(t, c, l)
  \/ \E t \in Threads : filter_compare(t)

SpecSwap == Init /\ [][NextSwap]_vars

(* SpecIndent: indentation by direct calls and by nested CLogScopedIndent  *)
(* objects.  A thread calls addIndent and removeIndent itself only while   *)
(* it has no scope object.                                                 *)
NextIndent ==
  \/ \E t \in Threads : scopes[t] = << >> /\ addIndent(t)
  \/ \E t \in Threads : scopes[t] = << >> /\ removeIndent(t)
  \/ \E t \in Threads : CLogScopedIndent_ctor(t)
  \/ \E t \in Threads : CLogScopedIndent_dtor(t)
  \/ \E s \in Streams : addSink(s)
  \/ \E n \in {EmptyStr, << "svc" >>} : setServiceName(n)

SpecIndent == Init /\ [][NextIndent]_vars

(* SpecIndentIf: the conditional CLogScopedIndent objects, under a filter  *)
(* configuration that changes while they live.                             *)
NextIndentIf ==
  \/ \E t \in Threads : scopes[t] = << >> /\ addIndent(t)
  \/ \E t \in Threads : scopes[t] = << >> /\ removeIndent(t)
  \/ \E t \in Threads, c \in LogChannels, l \in SwapLevels :
        CLogScopedIndent_ctor_if(t, c, l)
  \/ \E t \in Threads : CLogScopedIndent_dtor(t)
  \/ \E fs \in SwapFilterSpecs : setupFilters(fs, << "error" >>)

SpecIndentIf == Init /\ [][NextIndentIf]_vars

(* SpecIndentRace: threads indent, unindent, read their depth and log at   *)
(* the same time.                                                          *)
NextIndentRace ==
  \/ \E t \in Threads : addIndent_begin(t)
  \/ \E t \in Threads : removeIndent_begin(t)
  \/ \E t \in Threads : indents_update(t)
  \/ \E t \in Threads : GetIndent(t)
  \/ m_sinks = << >> /\ addSink("s1")
  \/ \E t \in Threads : log_entry(t, << "A" >>, info, WriteMessage(t), NoMap)

SpecIndentRace == Init /\ [][NextIndentRace]_vars

(* SpecReset: the setters of the registry, the scoped indentation and      *)
(* reset; setupFilters with a valid and with an invalid default level.     *)
ResetDefaultLevelSpecs == {<< "error" >>, << "A" >>}

NextReset ==
  \/ \E ds \in ResetDefaultLevelSpecs : setupFilters(<< "A", Colon, "info" >>, ds)
  \/ m_sinks = << >> /\ addSink("s1")
  \/ setFormatter("json")
  \/ enableThreadID
  \/ enableMetadata
  \/ setServiceName(<< "svc" >>)
  \/ addMetadata(1, "k", JNum(1))
  \/ \E t \in Threads : CLogScopedIndent_ctor(t)
  \/ \E t \in Threads : CLogScopedIndent_dtor(t)
  \/ reset

SpecReset == Init /\ [][NextReset]_vars

(* SpecJSON: one log() call per run, under every setting of the thread-id  *)
(* flag and the service name, for messages with no, one and three lines    *)
(* and for metadata of no, one and two members, some named like the fixed  *)
(* fields.                                                                 *)
JSONMessages == {EmptyStr, << "h" >>, << "h", Newline, "g", Newline, "f" >>}
JSONMaps ==
  {NoMap,
   << [key |-> "k", value |-> JNum(1)] >>,
   << [key |-> "message", value |-> JStr(<< "m" >>)] >>,
   << [key |-> "channel", value |-> JStr(<< "c" >>)],
      [key |-> "k", value |-> JNum(1)] >>,
   << [key |-> "thread_id", value |-> JStr(<< "x" >>)],
      [key |-> "service_name", value |-> JStr(<< "y" >>)] >>}

NextJSON ==
  \/ m_sinks = << >> /\ addSink("s1")
  \/ \E f \in {"std", "json"} : setFormatter(f)
  \/ enableThreadID
  \/ disableThreadID
  \/ \E n \in {EmptyStr, << "svc" >>} : setServiceName(n)
  \/ \E t \in Threads : addIndent(t)
  \/ \E t \in Threads, m \in JSONMessages, d \in JSONMaps :
        (\A s \in Streams : out[s] = << >>) /\ Log(t, << "A" >>, warning, m, d)

SpecJSON == Init /\ [][NextJSON]_vars

(* SpecLevel: the level names and texts near them, parsed directly and as  *)
(* the default level of setupFilters.                                      *)
LevelNames == {LevelToHumanString(l) : l \in ELogLevels}
NearNames ==
  {EmptyStr, << "A" >>, << "INFO" >>, << "Info" >>, << "inf" >>, << "info", " " >>,
   << " ", "info" >>, << "debug5" >>, << "debug", "1" >>, << "warn" >>,
   << "4" >>, << "info", Newline >>, << "info", "info" >>}
LevelStrings == LevelNames \cup NearNames

NextLevel ==
  \/ \E str \in LevelStrings : ParseLevelCall(str)
  \/ \E l \in ELogLevels : LevelToHumanStringCall(l)
  \/ \E ds \in LevelStrings : setupFilters(EmptyStr, ds)

SpecLevel == Init /\ [][NextLevel]_vars

(* SpecBlock: thread 1 opens and closes CLogScope objects on channel A,     *)
(* nested up to MaxScopes deep, each with a message of its own; both       *)
(* threads log in between, each with a message of its own, while the       *)
(* filters turn channel A on and off.                                      *)
BlockThreads == {1}
BlockMessage(t) == << "b", ToString(Len(scopes[t])), ToString(t) >>
PlainMessage(t) == << "p", ToString(t) >>
BlockFilterSpecs == {<< "A", Colon, "info" >>, << "B", Colon, "info" >>}

NextBlock ==
  \/ m_sinks = << >> /\ addSink("s1")
  \/ \E fs \in BlockFilterSpecs : AllIdle /\ setupFilters(fs, << "off" >>)
  \/ \E t \in BlockThreads, l \in {off, info} :
        CLogScope_ctor(t, << "A" >>, l, BlockMessage(t))
  \/ \E t \in BlockThreads : CLogScope_dtor(t)
  \/ \E t \in BlockThreads : CLogScope_log(t)
  \/ \E t \in Threads : BlockLog(t, << "A" >>, info, PlainMessage(t))

SpecBlock == Init /\ [][NextBlock]_vars

(* SpecTimer: thread 1 times blocks on channel A, one at a time, while the *)
(* clock moves on and the filters turn the channel on and off between the  *)
(* calls.                                                                  *)
TimerMessage == << "t" >>

NextTimer ==
  \/ m_sinks = << >> /\ addSink("s1")
  \/ \E fs \in BlockFilterSpecs : AllIdle /\ setupFilters(fs, << "off" >>)
  \/ Tick
  \/ \E t \in BlockThreads, l \in {off, info} :
        scopes[t] = << >> /\ CLogScopedTimer_ctor(t, << "A" >>, l, TimerMessage)
  \/ \E t \in BlockThreads : CLogScopedTimer_dtor(t)
  \/ \E t \in BlockThreads : CLogScopedTimer_filter(t)
  \/ \E t \in BlockThreads : CLogScopedTimer_log(t)

SpecTimer == Init /\ [][NextTimer]_vars

(* SpecMetadata: thread 1 scopes metadata, nested up to MaxScopes deep;    *)
(* both threads add, remove and clear keys of their own meanwhile.         *)
MetadataKeys == {"k", "j"}
MetadataValues == {JNum(1), JNum(2)}
ScopedMaps ==
  {<< [key |-> "k", value |-> JNum(1)] >>,
   << [key |-> "k", value |-> JNum(2)], [key |-> "j", value |-> JNum(1)] >>}

NextMetadata ==
  \/ \E t \in Threads, k \in MetadataKeys, v \in MetadataValues :
        addMetadata(t, k, v)
  \/ \E t \in Threads, k \in MetadataKeys : removeMetadata(t, k)
  \/ \E t \in Threads : clearMetadata(t)
  \/ \E t \in BlockThreads, m \in ScopedMaps : CLogScopedMetadata_ctor(t, m)
  \/ \E t \in BlockThreads : CLogScopedMetadata_dtor(t)

SpecMetadata == Init /\ [][NextMetadata]_vars

(* SpecThread: the threads log through ALOG_THREAD and through ALOG on the *)
(* enabled channel A while the program turns thread-id logging on and off. *)
NextThread ==
  \/ m_sinks = << >> /\ addSink("s1")
  \/ m_filters = EmptyMap /\ setupFilters(<< "A", Colon, "info" >>, << "off" >>)
  \/ enableThreadID
  \/ disableThreadID
  \/ \E t \in Threads : ALOG_THREAD_read(t, << "A" >>, info, WriteMessage(t))
  \/ \E t \in Threads : ALOG_THREAD_enable(t)
  \/ \E t \in Threads : ALOG_THREAD_filter(t)
  \/ \E t \in Threads : ALOG_THREAD_log(t)
  \/ \E t \in Threads : ALOG_THREAD_disable(t)
  \/ \E t \in Threads : ALOG_filter(t, << "A" >>, info, WriteMessage(t), NoMap)
  \/ \E t \in Threads : ALOG_log(t)

SpecThread == Init /\ [][NextThread]_vars

(* SpecSnapshot: threads log, entry first and formatting second, while the *)
(* thread-id flag and the service name are changed.  One sink, registered  *)
(* first; either formatter, chosen while no log() call is in progress.     *)
SnapshotNames == {EmptyStr, << "svc" >>}

NextSnapshot ==
  \/ m_sinks = << >> /\ AllIdle /\ addSink("s1")
  \/ \E f \in {"std", "json"} : AllIdle /\ m_formatter # f /\ setFormatter(f)
  \/ enableThreadID
  \/ disableThreadID
  \/ \E n \in SnapshotNames : setServiceName(n)
  \/ \E t \in Threads : log_CLogEntry(t, << "A" >>, info, WriteMessage(t), NoMap)
  \/ \E t \in Threads : log_formatEntry(t)

SpecSnapshot == Init /\ [][NextSnapshot]_vars

(* SpecInstance: the threads' first and later uses of instance(), each to  *)
(* set the service name, from the program's start.                         *)
InstanceNames == {<< "svc" >>, << "web" >>}

NextInstance ==
  \/ \E t \in Threads : instance_test(t)
  \/ \E t \in Threads : instance_new(t)
  \/ \E t \in Threads : instance_setFormatter(t)
  \/ \E t \in Threads, n \in InstanceNames : instance_return(t, n)

SpecInstance == InitInstance /\ [][NextInstance]_vars

(* SpecPair: thread 1 opens and closes CLogScope objects on channel A      *)
(* while setupFilters and reset change the configuration.  The sink is     *)
(* registered while no scope object lives, at the start and after a reset. *)
NextPair ==
  \/ /\ m_sinks = << >> /\ AllIdle /\ \A t \in Threads : scopes[t] = << >>
     /\ addSink("s1")
  \/ \E fs \in BlockFilterSpecs : AllIdle /\ setupFilters(fs, << "off" >>)
  \/ AllIdle /\ reset
  \/ \E t \in BlockThreads : CLogScope_ctor(t, << "A" >>, info, BlockMessage(t))
  \/ \E t \in BlockThreads : CLogScope_dtor(t)
  \/ \E t \in BlockThreads : CLogScope_log(t)

SpecPair == Init /\ [][NextPair]_vars

(* ======================================================================== *)
(* Properties                                                               *)
(* ======================================================================== *)

(* the level configured for a channel: its table entry, else the default *)
Configured(c) == IF c \in DOMAIN m_filters THEN m_filters[c] ELSE m_defaultLevel

(* C1: for every channel c and every level l other than off, Filter(c, l)  *)
(* returns true exactly when the level configured for c (its filter-table  *)
(* entry, else the default level) is >= l; a configured level of off       *)
(* rejects every level.                                                    *)
C1_FilterDecision ==
  /\ \A c \in Channels, l \in ELogLevels \ {off} :
        /\ filter(c, l) = Returns(Configured(c) >= l)
        /\ Configured(c) = off => filter(c, l) = Returns(FALSE)
  /\ (last.op = "filter" /\ last.args.level # off) =>
        /\ ~last.raised
        /\ last.ret = (Configured(last.args.channel) >= last.args.level)

(* a query the table entry decides against the default: A is configured    *)
(* info over a lower default, and a level between the two passes           *)
C1_Witness ==
  /\ last.op = "filter"
  /\ last.args.channel \in DOMAIN m_filters
  /\ m_defaultLevel < last.args.level
  /\ last.args.level # off
  /\ last.ret = TRUE

(* ---- the filter spec grammar, read off the string ----------------------- *)
(* "CH1:lvl1,CH2:lvl2": the items are what the commas separate, the empty  *)
(* ones included; an item is a pair when one colon splits it into a        *)
(* non-empty channel and a non-empty level name.                           *)
ItemBounds(fs) == {0, Len(fs) + 1} \cup {i \in 1 .. Len(fs) : fs[i] = Comma}
Items(fs) ==
  {[start |-> b, text |-> SubSeq(fs, b + 1, e - 1)] :
     <<b, e>> \in {x \in ItemBounds(fs) \X ItemBounds(fs) :
                     /\ x[1] < x[2]
                     /\ \A m \in ItemBounds(fs) : ~(x[1] < m /\ m < x[2])}}
ColonsOf(item) == {k \in 1 .. Len(item) : item[k] = Colon}
IsPair(item) ==
  /\ Cardinality(ColonsOf(item)) = 1
  /\ \A k \in ColonsOf(item) : 1 < k /\ k < Len(item)
PairChannel(item) == SubSeq(item, 1, (CHOOSE k \in ColonsOf(item) : TRUE) - 1)
PairLevelName(item) ==
  SubSeq(item, (CHOOSE k \in ColonsOf(item) : TRUE) + 1, Len(item))
IsLevelName(name) == \E l \in ELogLevels : LevelToHumanString(l) = name
LevelNamed(name) == CHOOSE l \in ELogLevels : LevelToHumanString(l) = name
WellFormed(fs) ==
  \/ fs = EmptyStr
  \/ \A it \in Items(fs) : IsPair(it.text) /\ IsLevelName(PairLevelName(it.text))
(* the items of a well-formed spec that name channel c; the last one counts *)
Naming(fs, c) == {it \in Items(fs) : fs # EmptyStr /\ PairChannel(it.text) = c}
PairedLevel(fs, c) ==
  LET it == CHOOSE x \in Naming(fs, c) : \A y \in Naming(fs, c) : y.start <= x.start
  IN  LevelNamed(PairLevelName(it.text))
NamedChannels(fs) ==
  IF fs = EmptyStr THEN {} ELSE {PairChannel(it.text) : it \in Items(fs)}

(* C3: a SetupFilters call that fails, for a malformed filter spec or for   *)
(* an invalid level name, leaves the filter table and the default level    *)
(* exactly as they were before the call.                                   *)
C3_NoPartialConfiguration ==
  [][(last'.op = "setupFilters" /\ last'.raised)
       => (m_filters' = m_filters /\ m_defaultLevel' = m_defaultLevel)]_vars

(* C4: after a successful SetupFilters(filterSpec, d), with filterSpec      *)
(* empty or a list of well-formed pairs, every channel has the level       *)
(* paired with it in filterSpec when filterSpec names it, and d otherwise. *)
C4_SetupReplaces ==
  (/\ last.op = "setupFilters"
   /\ ~last.raised
   /\ WellFormed(last.args.filterSpec))
  => LET fs == last.args.filterSpec
         d  == LevelNamed(last.args.defaultLevelSpec)
     IN  \A c \in Channels \cup NamedChannels(fs) :
            Configured(c) = IF Naming(fs, c) # {} THEN PairedLevel(fs, c) ELSE d

(* C5: a SetupFilters call whose filter spec has an item that is not a      *)
(* pair of a non-empty channel and a known level name fails.               *)
C5_MalformedSpecFails ==
  (last.op = "setupFilters" /\ ~WellFormed(last.args.filterSpec)) => last.raised

(* ---- what a log call is to write, read off the state before it --------- *)
Count(sinks, s) == Cardinality({j \in DOMAIN sinks : sinks[j] = s})
(* each line n times, the lines in order *)
FanOut(lines, n) == [k \in 1 .. Len(lines) * n |-> lines[((k - 1) \div n) + 1]]
(* the lines the active formatter returns for the entry of a call *)
LinesFor(tid, a) ==
  formatEntry(m_formatter,
              CLogEntry(a.channel, a.level, a.msg, a.mapData,
                        m_serviceName, getIndent(tid), tid),
              m_doThreadLog)
ExampleSetup ==
  /\ m_filters = MapPut(EmptyMap, << "A" >>, info)
  /\ m_defaultLevel = error

(* C2: on the call-site path log() is called exactly when filter() passed  *)
(* when it was checked, and then every sink receives the entry's lines;    *)
(* under default error and A:info, ALOG on A at info goes on to log() and  *)
(* ALOG on B at info writes nothing.                                       *)
C2_CallSiteFiltering ==
  /\ [](last.op = "ALOG_filter" =>
          /\ last.writes = << >>
          /\ (pc[last.tid].at = "log") = (~last.raised /\ last.ret = TRUE))
  /\ [][\A t \in Threads :
          /\ (pc[t].at = "idle" /\ pc'[t].at = "log") =>
                /\ filter(pc'[t].channel, pc'[t].level) = Returns(TRUE)
                /\ out' = out
          /\ (last'.op = "ALOG_filter" /\ last'.tid = t /\ pc'[t].at = "idle") =>
                /\ filter(last'.args.channel, last'.args.level) # Returns(TRUE)
                /\ out' = out
          /\ (last'.op = "ALOG_filter" /\ last'.tid = t /\ ExampleSetup
              /\ last'.args.level = info) =>
                (pc'[t].at = "log") = (last'.args.channel = << "A" >>)
          /\ (pc[t].at = "log" /\ pc'[t].at = "idle" /\ m_formatter # "null") =>
                \A s \in Streams :
                   out'[s] = out[s] \o FanOut(LinesFor(t, pc[t]), Count(m_sinks, s))
     ]_vars

(* under default error and A:info, an ALOG on A at info has written its    *)
(* two lines to both registered sinks                                      *)
C2_Witness ==
  /\ last.op = "ALOG_log"
  /\ ExampleSetup
  /\ last.args.channel = << "A" >> /\ last.args.level = info
  /\ Len(m_sinks) = 2
  /\ \A s \in Streams : Len(out[s]) = 2

(* C6: Filter(channel, off) raises for every channel and configuration,    *)
(* changes nothing in the registry, and nothing is written: the call site  *)
(* does not go on to log().                                                *)
C6_LoggingToOffRaises ==
  /\ [](\A c \in Channels : filter(c, off).thrown)
  /\ []((last.op \in {"filter", "ALOG_filter"} /\ last.args.level = off) =>
          /\ last.raised
          /\ last.writes = << >>
          /\ pc[last.tid] = Idle)
  /\ [][(last'.op \in {"filter", "ALOG_filter"} /\ last'.args.level = off) =>
          (registry' = registry /\ out' = out)]_vars

(* an ALOG at off raised while a table, a formatter and a sink were set up *)
C6_Witness ==
  /\ last.op = "ALOG_filter"
  /\ last.args.level = off
  /\ last.raised
  /\ ExampleSetup
  /\ m_sinks # << >>
  /\ m_formatter = "std"

(* C7: no stream ever holds a line produced from an entry of level off.    *)
C7_OffNeverEmitted ==
  \A s \in Streams : \A i \in DOMAIN out[s] : ~LineLevelIs(out[s][i], off)

(* C8: with a formatter set and a sink registered, log() writes the        *)
(* entry's formatted lines to every sink, whatever filter() would return.  *)
C8_LogDoesNotFilter ==
  [][(last'.op = "log" /\ m_formatter # "null" /\ m_sinks # << >>) =>
       \A s \in Streams :
          out'[s] = out[s] \o FanOut(LinesFor(last'.tid, last'.args),
                                     Count(m_sinks, s))]_vars

(* a direct log() wrote lines for a (channel, level) that filter() rejects *)
C8_Witness ==
  /\ last.op = "log"
  /\ last.writes # << >>
  /\ last.args.level # off
  /\ filter(last.args.channel, last.args.level) = Returns(FALSE)

(* C9: log() with no formatter returns without raising, writes nothing and *)
(* changes no registry state; with a formatter and no sinks it returns     *)
(* without raising and writes nothing.                                     *)
C9_LogBeforeConfiguration ==
  /\ [](last.op = "log" => ~last.raised)
  /\ [][(last'.op = "log" /\ m_formatter = "null") =>
          (out' = out /\ registry' = registry /\ last'.writes = << >>)]_vars
  /\ [][(last'.op = "log" /\ m_sinks = << >>) =>
          (out' = out /\ last'.writes = << >>)]_vars

(* a log() of a two-line message with a sink registered and no formatter   *)
C9_Witness ==
  /\ last.op = "log"
  /\ m_formatter = "null"
  /\ m_sinks # << >>
  /\ last.args.msg # EmptyStr
  /\ last.writes = << >>
  /\ ~last.raised

(* C10: a log() call writes line by line, each line to the sinks in        *)
(* registration order, so that every registration receives the formatter's *)
(* lines in the formatter's order; only reset removes or reorders a sink.  *)
C10_SinkFanOut ==
  /\ [][(last'.op \in {"log", "ALOG_log"} /\ m_formatter # "null") =>
          LET lines == LinesFor(last'.tid, last'.args)
              n     == Len(m_sinks)
          IN  /\ last'.writes =
                   [k \in 1 .. Len(lines) * n |->
                      [sink   |-> ((k - 1) % n) + 1,
                       stream |-> m_sinks[((k - 1) % n) + 1],
                       line   |-> lines[((k - 1) \div n) + 1]]]
              /\ \A s \in Streams :
                    out'[s] = out[s] \o FanOut(lines, Count(m_sinks, s))]_vars
  /\ [][last'.op # "reset" =>
          /\ Len(m_sinks) <= Len(m_sinks')
          /\ SubSeq(m_sinks', 1, Len(m_sinks)) = m_sinks]_vars

(* a two-line entry went to two sinks: four writes *)
C10_Witness ==
  /\ last.op = "log"
  /\ Len(m_sinks) = 2
  /\ Len(last.writes) = 4
  /\ last.writes[1].line = last.writes[2].line
  /\ last.writes[1].stream # last.writes[2].stream

(* ---- concurrent writes --------------------------------------------------- *)
(* the lines a log() call of SpecWrite formats *)
WriteLines ==
  {LinesFor(t, [channel |-> << "A" >>, level |-> info,
                msg |-> WriteMessage(t), mapData |-> NoMap])[1] : t \in Threads}
IsPrefix(p, str) == Len(p) <= Len(str) /\ SubSeq(str, 1, Len(p)) = p
(* str is a run of complete lines *)
RECURSIVE IsLines(_)
IsLines(str) ==
  \/ str = << >>
  \/ \E l \in WriteLines :
        /\ IsPrefix(Chars(l), str)
        /\ IsLines(SubSeq(str, Len(Chars(l)) + 1, Len(str)))
(* str is a run of complete lines and then the beginning of at most one *)
RECURSIVE IsLinesThenPart(_)
IsLinesThenPart(str) ==
  \/ \E l \in WriteLines : IsPrefix(str, Chars(l))
  \/ \E l \in WriteLines :
        /\ IsPrefix(Chars(l), str)
        /\ IsLinesThenPart(SubSeq(str, Len(Chars(l)) + 1, Len(str)))
RECURSIVE NumLines(_)
NumLines(str) == IF str = << >> THEN 0 ELSE 1 + NumLines(SubSeq(str, 4, Len(str)))
RECURSIVE SumLogged(_)
SumLogged(T) ==
  IF T = {} THEN 0
  ELSE LET t == CHOOSE t \in T : TRUE IN nLogged[t] + SumLogged(T \ {t})

(* C11: when threads log single-line messages to a sink at the same time,  *)
(* the characters of two calls never interleave inside a line (at every    *)
(* moment the sink holds complete lines and at most the beginning of one   *)
(* more), and once the N*M calls have returned the sink holds exactly N*M  *)
(* complete lines per registration.                                        *)
C11_ConcurrentWriteAtomicity ==
  \A s \in Streams :
     /\ IsLinesThenPart(out[s])
     /\ AllIdle => /\ IsLines(out[s])
                   /\ NumLines(out[s]) = SumLogged(Threads) * Count(m_sinks, s)

(* C12: a Filter(channel, level) call that runs while SetupFilters calls   *)
(* run returns the decision of a complete configuration in force during    *)
(* the call: the table and default level from before a SetupFilters call,  *)
(* or the table and default level that call installs, never a mixture.     *)
C12_AtomicConfigurationSwap ==
  [][\A t \in Threads :
       (pc[t].at = "filter_compare" /\ pc'[t] = Idle) =>
          \E cfg \in pc[t].cfgs :
             Returns(last'.ret) =
               filterResult(cfg.filters, cfg.defaultLevel,
                            pc[t].args.channel, pc[t].args.level)]_vars

(* ---- indentation --------------------------------------------------------- *)
(* C13: every thread's indent depth is >= 0 in every reachable state, and  *)
(* removeIndent by a thread whose depth is 0 raises nothing, leaves the    *)
(* depth at 0 and changes no part of the registry.                         *)
C13_RemoveIndentTotal ==
  /\ [](\A t \in Threads : getIndent(t) >= 0)
  /\ [](\A t \in DOMAIN m_indents : m_indents[t] >= 0)
  /\ [](last.op = "removeIndent" => ~last.raised)
  /\ [][(last'.op = "removeIndent" /\ getIndent(last'.tid) = 0) =>
          /\ getIndentOf(m_indents', last'.tid) = 0
          /\ registry' = registry
          /\ out' = out]_vars

(* a thread at depth 0 called removeIndent while another thread is indented *)
C13_Witness ==
  /\ last.op = "removeIndent"
  /\ last.args.depth = 0
  /\ getIndent(last.tid) = 0
  /\ \E u \in Threads \ {last.tid} : getIndent(u) > 0

(* C14: while k nested CLogScopedIndent objects of a thread are alive its  *)
(* depth is the depth before the first construction plus k, and when the   *)
(* last of them is released the depth is again the one before the first.   *)
C14_IndentBalance ==
  /\ [](\A t \in Threads : \A k \in DOMAIN scopes[t] :
          scopes[t][k].depth = scopes[t][1].depth + (k - 1))
  /\ [](\A t \in Threads :
          scopes[t] # << >> => getIndent(t) = scopes[t][1].depth + Len(scopes[t]))
  /\ [][\A t \in Threads :
          (scopes[t] # << >> /\ scopes'[t] = << >>) =>
             getIndentOf(m_indents', t) = scopes[t][1].depth]_vars

(* a thread that started at depth 1 released its last scope object and is  *)
(* back at depth 1, while the other thread has two of them alive           *)
C14_Witness ==
  /\ last.op = "~CLogScopedIndent"
  /\ scopes[last.tid] = << >>
  /\ last.args.scope.depth = 1
  /\ getIndent(last.tid) = 1
  /\ \E u \in Threads \ {last.tid} : Len(scopes[u]) = 2 /\ getIndent(u) = 2

(* C15: a conditional CLogScopedIndent indents at construction exactly     *)
(* when the filter passes for its (channel, level), and its release undoes *)
(* exactly that: a disabled one changes the depth neither at construction  *)
(* nor at release, an enabled one adds one and takes one away, and the     *)
(* depth after release is the depth before construction, whatever the      *)
(* filter configuration has become in between.                             *)
C15_ConditionalIndentBalanced ==
  [][\A t \in Threads :
       /\ (last'.op = "CLogScopedIndent" /\ last'.tid = t /\ ~last'.raised) =>
             /\ last'.ret = filter(last'.args.channel, last'.args.level).val
             /\ getIndentOf(m_indents', t)
                  = getIndent(t) + (IF last'.ret THEN 1 ELSE 0)
       /\ (last'.op = "~CLogScopedIndent" /\ last'.tid = t) =>
             /\ getIndentOf(m_indents', t)
                  = getIndent(t) - (IF Top(t).m_enabled THEN 1 ELSE 0)
             /\ getIndentOf(m_indents', t) = Top(t).depth]_vars

(* C16: addIndent and removeIndent by a thread change no other thread's    *)
(* depth; what getIndent returns to a thread is that thread's own depth,   *)
(* whatever the other threads are doing, and the indent of a log entry is  *)
(* the depth of the thread that called log().                              *)
C16_PerThreadIsolation ==
  /\ [][\A t \in Threads :
          (last'.op \in {"addIndent", "removeIndent"} /\ last'.tid = t) =>
             \A u \in Threads \ {t} :
                getIndentOf(m_indents', u) = getIndentOf(m_indents, u)]_vars
  /\ [](last.op = "getIndent" => last.ret = last.args.depth)
  /\ [](last.op = "log" =>
          \A k \in DOMAIN last.writes :
             last.writes[k].line.header.nIndent = last.args.depth)

(* ---- reset and reconfiguration ------------------------------------------- *)
(* C17: after reset the sink list is empty, the filter table is empty, the *)
(* default level is off, so that filter rejects every level on every       *)
(* channel, the service name is empty, every thread's indent depth is 0    *)
(* and the formatter is the human-readable one.                            *)
C17_ResetClears ==
  last.op = "reset" =>
    /\ m_sinks = << >>
    /\ m_filters = EmptyMap
    /\ m_defaultLevel = off
    /\ \A c \in Channels, l \in ELogLevels \ {off} : filter(c, l) = Returns(FALSE)
    /\ m_serviceName = EmptyStr
    /\ \A t \in Threads : getIndent(t) = 0
    /\ m_formatter = "std"

(* reset was called while both threads had scoped indentation alive *)
C17_Witness ==
  /\ last.op = "reset"
  /\ \A t \in Threads : scopes[t] # << >>

(* C18: after reset every piece of registry state, the metadata flag and   *)
(* the threads' metadata included, has the value it has in a freshly       *)
(* created registry.                                                       *)
C18_ResetRestoresFresh ==
  last.op = "reset" =>
    /\ m_sinks = << >>
    /\ m_filters = EmptyMap
    /\ m_defaultLevel = off
    /\ m_formatter = "std"
    /\ m_serviceName = EmptyStr
    /\ m_doThreadLog = FALSE
    /\ m_doMetadata = FALSE
    /\ \A t \in Threads : getIndent(t) = 0
    /\ \A t \in Threads : getMetadataOf(m_metadata, t) = NoMap

(* C19: a setupFilters call, successful or failed, leaves the sink list,   *)
(* the formatter, the service name, the thread-id and metadata flags and   *)
(* every thread's indent depth and metadata unchanged.                     *)
C19_SetupFiltersFrame ==
  [][last'.op = "setupFilters" =>
       /\ m_sinks' = m_sinks
       /\ m_formatter' = m_formatter
       /\ m_serviceName' = m_serviceName
       /\ m_doThreadLog' = m_doThreadLog
       /\ m_doMetadata' = m_doMetadata
       /\ m_indents' = m_indents
       /\ m_metadata' = m_metadata
       /\ out' = out]_vars

(* a failed setupFilters call on a registry with a sink, the JSON          *)
(* formatter, a service name, both flags, indentation and metadata         *)
C19_Witness ==
  /\ last.op = "setupFilters"
  /\ last.raised
  /\ m_sinks # << >>
  /\ m_formatter = "json"
  /\ m_serviceName # EmptyStr
  /\ m_doThreadLog /\ m_doMetadata
  /\ getIndent(1) > 0
  /\ getMetadataOf(m_metadata, 1) # NoMap

(* ---- the JSON formatter -------------------------------------------------- *)
NewlinesIn(str) == Cardinality({i \in DOMAIN str : str[i] = Newline})
(* the value the metadata gives for a key *)
MetaValue(mapData, k) ==
  mapData[CHOOSE i \in DOMAIN mapData : mapData[i].key = k].value
(* one line per sink, each ending in its only line end *)
OneLinePerSink ==
  /\ Len(last.writes) = Len(m_sinks)
  /\ \A k \in DOMAIN last.writes :
        LET text == last.writes[k].line.text
        IN  /\ NewlinesIn(text) = 1
            /\ text[Len(text)] = Newline

(* C20 as stated: under the JSON formatter a log() call writes exactly one *)
(* line per entry, whatever the message and the metadata, and the line has *)
(* the field message only when the message is not empty, thread_id only    *)
(* when thread-id logging is enabled and service_name only when a service  *)
(* name is set.                                                            *)
C20_JSONOneLine ==
  (last.op = "log" /\ m_formatter = "json") =>
    /\ OneLinePerSink
    /\ \A k \in DOMAIN last.writes :
          LET j == last.writes[k].line.object
          IN  /\ "message" \in DOMAIN j => last.args.msg # EmptyStr
              /\ "thread_id" \in DOMAIN j => m_doThreadLog
              /\ "service_name" \in DOMAIN j => m_serviceName # EmptyStr

(* C20, amended: exactly one line per entry; the line has the entry's      *)
(* message as message exactly when the message is not empty, the thread id *)
(* as thread_id exactly when thread-id logging is enabled and the service  *)
(* name as service_name exactly when one is set; otherwise the field is    *)
(* there only when the metadata has a member of that name, which the line  *)
(* then carries unchanged.                                                 *)
C20_JSONOneLineAmended ==
  (last.op = "log" /\ m_formatter = "json") =>
    /\ OneLinePerSink
    /\ \A k \in DOMAIN last.writes :
          LET j  == last.writes[k].line.object
              md == last.args.mapData
              Field(name, cond, val) ==
                IF cond THEN name \in DOMAIN j /\ j[name] = val
                ELSE IF name \in MapKeys(md)
                THEN name \in DOMAIN j /\ j[name] = MetaValue(md, name)
                ELSE name \notin DOMAIN j
          IN  /\ Field("message", last.args.msg # EmptyStr, JStr(last.args.msg))
              /\ Field("thread_id", m_doThreadLog,
                       JStr(<< ToString(last.tid) >>))
              /\ Field("service_name", m_serviceName # EmptyStr,
                       JStr(m_serviceName))

(* a three-line message with two metadata members went out as one line,    *)
(* with thread-id logging on and a service name set                        *)
C20_Witness ==
  /\ last.op = "log"
  /\ m_formatter = "json"
  /\ Len(last.writes) = 1
  /\ NewlinesIn(last.args.msg) = 2
  /\ Len(last.args.mapData) = 2
  /\ m_doThreadLog
  /\ m_serviceName # EmptyStr

(* ---- level names ---------------------------------------------------------- *)
(* C21: for each of the 11 levels L, ParseLevel(LevelToHumanString(L)) is  *)
(* L; no two levels share a human string; ParseLevel of a string that is   *)
(* none of the 11 names fails instead of returning a default level.        *)
C21_LevelNamesRoundTrip ==
  /\ Cardinality(ELogLevels) = 11
  /\ \A l \in ELogLevels : ParseLevel(LevelToHumanString(l)) = Returns(l)
  /\ \A l1, l2 \in ELogLevels :
        LevelToHumanString(l1) = LevelToHumanString(l2) => l1 = l2
  /\ last.op = "ParseLevel" =>
        IF last.args.str \in LevelNames
        THEN ~last.raised /\ LevelToHumanString(last.ret) = last.args.str
        ELSE last.raised
  /\ last.op = "setupFilters" =>
        IF last.args.defaultLevelSpec \in LevelNames
        THEN /\ ~last.raised
             /\ LevelToHumanString(m_defaultLevel) = last.args.defaultLevelSpec
        ELSE last.raised

(* debug4 was parsed as the default level, and then a text that is no      *)
(* level name was refused                                                  *)
C21_Witness ==
  /\ m_defaultLevel = debug4
  /\ last.op = "ParseLevel"
  /\ last.args.str \notin LevelNames
  /\ last.raised

(* ---- CLogScope -------------------------------------------------------------- *)
(* the lines of out[s] after the first n that thread t wrote, by the       *)
(* message texts of t                                                      *)
MineAfter(t, s, n) ==
  {i \in DOMAIN out[s] :
     /\ i > n
     /\ out[s][i].text[Len(out[s][i].text)] = ToString(t)}
IsBlockLine(line, word, sc) ==
  /\ line.text = << word >> \o sc.m_msg
  /\ line.header.channel = Resize(sc.m_logName, MAX_CHANNEL_LENGTH)
  /\ line.header.level = LevelToHeaderString(sc.m_level)
(* the streams a call wrote to *)
WrittenTo(writes) == {writes[k].stream : k \in DOMAIN writes}

(* C22: a CLogScope logs "Start: <msg>" when it is constructed and         *)
(* "End: <msg>" when it is released, on its channel and at its level, each *)
(* time exactly when the filter passes; in a sink the End line comes after *)
(* the Start line, and the lines its thread logs while the object lives    *)
(* lie between the two.                                                    *)
C22_ScopeBlockBrackets ==
  /\ (last.op = "CLogScope" /\ ~last.raised /\ pc[last.tid] = Idle) =>
        LET sc == Top(last.tid)
        IN  /\ sc.m_logName = last.args.channel
            /\ sc.m_level = last.args.level
            /\ sc.m_msg = last.args.msg
            /\ last.ret = (Configured(sc.m_logName) >= sc.m_level)
            /\ last.ret = TRUE =>
                  /\ WrittenTo(last.writes) = {m_sinks[j] : j \in DOMAIN m_sinks}
                  /\ \A s \in WrittenTo(last.writes) :
                        /\ IsBlockLine(out[s][Len(out[s])], "Start: ", sc)
                        /\ MineAfter(last.tid, s, sc.len0[s]) = {Len(out[s])}
            /\ last.ret = FALSE => last.writes = << >>
  /\ (last.op = "~CLogScope" /\ ~last.raised /\ pc[last.tid] = Idle) =>
        /\ last.ret = (Configured(last.args.channel) >= last.args.level)
        /\ last.ret = FALSE => last.writes = << >>
        /\ last.ret = TRUE =>
              LET sc == last.args.scope[1]
              IN  /\ WrittenTo(last.writes) = {m_sinks[j] : j \in DOMAIN m_sinks}
                  /\ \A s \in WrittenTo(last.writes) :
                        LET mine == MineAfter(last.tid, s, sc.len0[s])
                        IN  /\ IsBlockLine(out[s][Len(out[s])], "End: ", sc)
                            /\ Len(out[s]) \in mine
                            /\ \A i \in mine :
                                  IsBlockLine(out[s][i], "Start: ", sc)
                                    => \A k \in mine : i <= k

(* a block is closed in a sink that holds its Start line, a line its       *)
(* thread logged meanwhile, and its End line, in that order                *)
C22_Witness ==
  /\ last.op = "~CLogScope"
  /\ pc[last.tid] = Idle
  /\ last.ret = TRUE
  /\ \E s \in WrittenTo(last.writes) :
        LET sc == last.args.scope[1]
            n  == Len(out[s])
        IN  /\ n >= 3
            /\ IsBlockLine(out[s][n - 2], "Start: ", sc)
            /\ out[s][n - 1].text = PlainMessage(last.tid)
            /\ IsBlockLine(out[s][n], "End: ", sc)

(* ---- CLogScopedTimer ---------------------------------------------------------- *)
(* C23: when a CLogScopedTimer emits its line at release, the duration in  *)
(* the line is the time between its construction and its release, also     *)
(* when its channel and level were disabled at construction and enabled    *)
(* before release; a timer whose channel and level are disabled at release *)
(* emits nothing.                                                          *)
C23_TimerReportsElapsed ==
  (last.op = "~CLogScopedTimer" /\ ~last.raised /\ pc[last.tid] = Idle) =>
    LET sc == last.args.scope
    IN  /\ \A k \in DOMAIN last.writes :
              last.writes[k].line.text
                = sc.m_msg \o DurationText(last.args.t1 - sc.born)
        /\ Configured(sc.m_logName) < sc.m_level => last.writes = << >>

(* ---- CLogScopedMetadata --------------------------------------------------------- *)
ValueIn(object, k) == object[CHOOSE i \in DOMAIN object : object[i].key = k].value
SeqRange(seq) == {seq[i] : i \in DOMAIN seq}

(* C24: when a CLogScopedMetadata is released, the keys it added are       *)
(* absent from its thread's metadata and every other key of the thread     *)
(* keeps its value, whatever was added, removed or cleared while it lived; *)
(* other threads' metadata is unchanged; removing a key that is not        *)
(* present changes nothing and is no error.                                *)
C24_MetadataScoping ==
  [][/\ last'.op = "~CLogScopedMetadata" =>
          LET tid    == last'.tid
              keys   == SeqRange(Top(tid).m_keys)
              before == getMetadataOf(m_metadata, tid)
              after  == getMetadataOf(m_metadata', tid)
          IN  /\ ~last'.raised
              /\ MapKeys(after) = MapKeys(before) \ keys
              /\ \A k \in MapKeys(after) : ValueIn(after, k) = ValueIn(before, k)
              /\ \A u \in Threads \ {tid} :
                    getMetadataOf(m_metadata', u) = getMetadataOf(m_metadata, u)
     /\ (/\ last'.op = "removeMetadata"
         /\ last'.args.key \notin MapKeys(getMetadataOf(m_metadata, last'.tid))) =>
          /\ ~last'.raised
          /\ \A u \in Threads :
                getMetadataOf(m_metadata', u) = getMetadataOf(m_metadata, u)
    ]_vars

(* a guard is released after one of its keys was removed and another key   *)
(* was added to its thread's metadata, while the other thread has metadata *)
(* of its own                                                              *)
C24_Witness ==
  /\ last.op = "~CLogScopedMetadata"
  /\ \E k \in SeqRange(last.args.keys) : k \notin MapKeys(last.args.before)
  /\ getMetadataOf(m_metadata, last.tid) # NoMap
  /\ \E u \in Threads \ {last.tid} : getMetadataOf(m_metadata, u) # NoMap

(* ---- ALOG_THREAD ------------------------------------------------------------------ *)
(* the line shows the id of the thread that logged it *)
CarriesThreadId(line, tid) ==
  IF line.fmt = "std" THEN line.header.thread = << ToString(tid) >>
  ELSE /\ "thread_id" \in DOMAIN line.object
       /\ line.object["thread_id"] = JStr(<< ToString(tid) >>)
CarriesNoThreadId(line) ==
  IF line.fmt = "std" THEN line.header.thread = EmptyStr
  ELSE "thread_id" \notin DOMAIN line.object

(* C25: every line emitted through ALOG_THREAD carries the id of the       *)
(* logging thread, whatever the global thread-id setting, also when other  *)
(* threads run ALOG_THREAD, enableThreadID or disableThreadID at the same  *)
(* time.                                                                   *)
C25_ThreadLineCarriesId ==
  last.op = "ALOG_THREAD_log" =>
    \A k \in DOMAIN last.writes : CarriesThreadId(last.writes[k].line, last.tid)

(* C29: ALOG_THREAD leaves the global thread-id setting as it found it:    *)
(* when no ALOG_THREAD call is in progress the flag is what the last       *)
(* enableThreadID, disableThreadID or reset made it; and a line another    *)
(* thread logs through ALOG while the flag is explicitly disabled carries  *)
(* no thread id.                                                           *)
C29_ThreadMacroLeavesSetting ==
  /\ AllIdle => m_doThreadLog = asked
  /\ (last.op = "ALOG_log" /\ ~asked) =>
        \A k \in DOMAIN last.writes : CarriesNoThreadId(last.writes[k].line)

(* ---- the registry mutex -------------------------------------------------------- *)
(* thread tid reads m_filters or m_defaultLevel in this step: it enters    *)
(* filter() and runs m_filters.find, or it runs the comparison             *)
ReadsFilterFields(tid) ==
  \/ pc[tid] = Idle /\ pc'[tid].at = "filter_compare"
  \/ pc[tid].at = "filter_compare" /\ pc'[tid] = Idle

(* C26: the fields of the registry are accessed only under its mutex: no   *)
(* filter() call reads the filter table or the default level while another *)
(* thread is inside setupFilters, holding the mutex to write them.         *)
C26_ReadsUnderMutex ==
  [][\A t \in Threads :
       ReadsFilterFields(t) => \A u \in Threads \ {t} : ~Locked(u)]_vars

(* ---- entry snapshot ------------------------------------------------------------ *)
(* what log() writes for an entry when the thread-id flag is threadIDEnabled *)
SnapshotWrites(call, threadIDEnabled) ==
  lineLoop(formatEntry(call.args.formatter, call.args.entry, threadIDEnabled),
           call.args.sinks, 1)

(* C27: both formatters depend only on the entry snapshot: what log()      *)
(* writes for an entry is what the entry gives with the thread-id flag and *)
(* the service name as they were when the entry was created, whatever      *)
(* enableThreadID, disableThreadID or setServiceName did since.            *)
C27_FormatFromSnapshot ==
  last.op = "log_formatEntry" =>
    last.writes = SnapshotWrites(last, last.args.threadIDEnabled0)

(* the service name alone: it is the one captured in the entry, also after *)
(* a setServiceName between the entry's creation and its formatting        *)
C27_ServiceNameFromSnapshot ==
  last.op = "log_formatEntry" =>
    \E flag \in BOOLEAN : last.writes = SnapshotWrites(last, flag)
C27_ServiceNameWitness ==
  /\ last.op = "log_formatEntry"
  /\ last.writes # << >>
  /\ last.args.entry.serviceName # m_serviceName

(* ---- the singleton ------------------------------------------------------------- *)
(* C28: there is exactly one registry: at most one is ever constructed,    *)
(* every call of instance() returns that one, and the service name set     *)
(* through a call is the one the registry behind m_pInstance has when no   *)
(* call is in progress.                                                    *)
C28_OneRegistry ==
  /\ Len(registries) <= 1
  /\ last.op = "instance" =>
       /\ last.ret = 1
       /\ AllIdle => registries[m_pInstance].m_serviceName = last.args.serviceName

(* ---- fixed fields and metadata ------------------------------------------------- *)
FixedFieldNames == {"channel", "level_str", "timestamp", "num_indent",
                    "message", "thread_id", "service_name"}

(* C30: in the JSON formatter the fixed fields win over the metadata: the  *)
(* line's channel, level_str, timestamp and num_indent, and its message,   *)
(* thread_id and service_name when the entry has them, are the entry's own *)
(* values also when the metadata has a key of that name; and every key of  *)
(* the metadata that is no fixed field's name is in the line with the      *)
(* metadata's value.                                                       *)
C30_FixedFieldsWin ==
  (last.op = "log" /\ m_formatter = "json") =>
    \A w \in DOMAIN last.writes :
       LET j  == last.writes[w].line.object
           md == last.args.mapData
       IN  /\ j["channel"] = JStr(last.args.channel)
           /\ j["level_str"] = JStr(LevelToHumanString(last.args.level))
           /\ j["timestamp"] = JStr(Timestamp)
           /\ j["num_indent"] = JNum(getIndent(last.tid))
           /\ last.args.msg # EmptyStr => j["message"] = JStr(last.args.msg)
           /\ m_doThreadLog => j["thread_id"] = JStr(<< ToString(last.tid) >>)
           /\ m_serviceName # EmptyStr => j["service_name"] = JStr(m_serviceName)
           /\ \A k \in MapKeys(md) \ FixedFieldNames :
                 k \in DOMAIN j /\ j[k] = MetaValue(md, k)
(* an entry logged with metadata that names the channel and has a key of   *)
(* its own, while the indent is not 0                                      *)
C30_Witness ==
  /\ last.op = "log"
  /\ m_formatter = "json"
  /\ last.writes # << >>
  /\ {"channel", "k"} \subseteq MapKeys(last.args.mapData)
  /\ MetaValue(last.args.mapData, "channel") # JStr(last.args.channel)
  /\ getIndent(last.tid) > 0

(* ---- Start and End lines ------------------------------------------------------- *)
(* the lines of stream s that are the word line of scope object sc of      *)
(* thread t, among those written since sc was made                         *)
BlockLines(t, s, word, sc) ==
  {i \in MineAfter(t, s, sc.len0[s]) : IsBlockLine(out[s][i], word, sc)}

(* C31: Start and End lines are paired: once a CLogScope has been          *)
(* released, every stream holds as many "End: <msg>" lines of it as        *)
(* "Start: <msg>" lines, at most one of each, also when setupFilters or    *)
(* reset changed the configuration while the object lived.                 *)
C31_StartEndPaired ==
  (last.op = "~CLogScope" /\ ~last.raised /\ pc[last.tid] = Idle) =>
    LET sc == IF last.ret = TRUE THEN last.args.scope[1] ELSE last.args.scope
    IN  \A s \in Streams :
           /\ Cardinality(BlockLines(last.tid, s, "Start: ", sc)) <= 1
           /\ Cardinality(BlockLines(last.tid, s, "End: ", sc))
                = Cardinality(BlockLines(last.tid, s, "Start: ", sc))

====
